---- MODULE Spec2Model ----
(***************************************************************************)
(* The arm64 code cache of dynarmic (AddressSpace): the four cache maps,   *)
(* the arena's write cursor and contents, block linking and relinking,     *)
(* invalidation, wholesale eviction and the fastmem fault callback.        *)
(***************************************************************************)
EXTENDS Integers, Sequences, FiniteSets, TLC

(***************************************************************************)
(* Bounds of the model                                                     *)
(***************************************************************************)
\* Instruction words of arena between end_of_prelude and the point where
\* exactly 1 MiB remains.
HeadroomWords == 12

\* Guest location descriptors are 1..MaxDescriptor.
MaxDescriptor == 3

LocationDescriptors == 1..MaxDescriptor

(***************************************************************************)
(* Program constants                                                       *)
(***************************************************************************)
nullptr == 0

InsnSize == 4

\* mem.ptr(): the page-aligned base of the arena.
MemBase == 65536

\* Bytes taken by the prelude; its last two words end a page.
PreludeSize == 4088

end_of_prelude == MemBase + PreludeSize

NearlyFullThreshold == 1024 * 1024

code_cache_size == NearlyFullThreshold + PreludeSize + InsnSize * HeadroomWords

PageSize == 4096

(***************************************************************************)
(* Maps (std::map, tsl::robin_map) as functions with an explicit key set   *)
(***************************************************************************)
EmptyMap == [k \in {} |-> 0]

Keys(m) == DOMAIN m

MapPut(m, k, v) == [x \in (DOMAIN m) \cup {k} |-> IF x = k THEN v ELSE m[x]]

MapErase(m, k) == [x \in (DOMAIN m) \ {k} |-> m[x]]

SetMax(S) == CHOOSE x \in S : \A y \in S : y <= x

(***************************************************************************)
(* Prelude: one helper address per LinkTarget, all below end_of_prelude    *)
(***************************************************************************)
LinkTargets ==
    << "ReturnToDispatcher", "ReturnFromRunCode",
       "ReadMemory8", "ReadMemory16", "ReadMemory32", "ReadMemory64", "ReadMemory128",
       "WrappedReadMemory8", "WrappedReadMemory16", "WrappedReadMemory32",
       "WrappedReadMemory64", "WrappedReadMemory128",
       "ExclusiveReadMemory8", "ExclusiveReadMemory16", "ExclusiveReadMemory32",
       "ExclusiveReadMemory64", "ExclusiveReadMemory128",
       "WriteMemory8", "WriteMemory16", "WriteMemory32", "WriteMemory64", "WriteMemory128",
       "WrappedWriteMemory8", "WrappedWriteMemory16", "WrappedWriteMemory32",
       "WrappedWriteMemory64", "WrappedWriteMemory128",
       "ExclusiveWriteMemory8", "ExclusiveWriteMemory16", "ExclusiveWriteMemory32",
       "ExclusiveWriteMemory64", "ExclusiveWriteMemory128",
       "CallSVC", "ExceptionRaised", "InstructionSynchronizationBarrierRaised",
       "InstructionCacheOperationRaised", "DataCacheOperationRaised",
       "GetCNTPCT", "AddTicks", "GetTicksRemaining" >>

LinkTargetIndex(target) == CHOOSE i \in 1..Len(LinkTargets) : LinkTargets[i] = target

\* prelude_info.<helper>: the helper's entry inside the prelude.
prelude_info(target) == MemBase + InsnSize * LinkTargetIndex(target)

return_to_dispatcher == prelude_info("ReturnToDispatcher")

(***************************************************************************)
(* Host instructions written into the arena                                *)
(***************************************************************************)
Insn(op, arg) == [op |-> op, arg |-> arg]

\* An ordinary emitted instruction (never patched).
CODE == Insn("CODE", 0)

\* oaknut B / BL / NOP: one instruction word each.
B(target) == Insn("B", target)

BL(target) == Insn("BL", target)

NOP == Insn("NOP", 0)

ADRL_LowBitsOnly(addr) == << Insn("ADRP", 0), Insn("ADD", addr % PageSize) >>

\* oaknut ADRL(Xscratch1, addr): ADRP of the address's page, then ADD of its
\* low 12 bits: two instruction words.
ADRL(addr) == << Insn("ADRP", addr \div PageSize), Insn("ADD", addr % PageSize) >>

\* The address a two-word ADRL sequence materialises.
AdrlValue(w1, w2) == w1.arg * PageSize + w2.arg

(***************************************************************************)
(* IR terminals and IR blocks                                              *)
(***************************************************************************)
Invalid == [tag |-> "Invalid"]

ReturnToDispatch == [tag |-> "ReturnToDispatch"]

LinkBlock(n) == [tag |-> "LinkBlock", next |-> n]

LinkBlockFast(n) == [tag |-> "LinkBlockFast", next |-> n]

PopRSBHint == [tag |-> "PopRSBHint"]

FastDispatchHint == [tag |-> "FastDispatchHint"]

If(t, e) == [tag |-> "If", then_ |-> t, else_ |-> e]

CheckBit(t, e) == [tag |-> "CheckBit", then_ |-> t, else_ |-> e]

CheckHalt(e) == [tag |-> "CheckHalt", else_ |-> e]

RECURSIVE AppendNextBlocksToList_ElseFirst(_, _)
AppendNextBlocksToList_ElseFirst(acc, terminal) ==
    IF acc.failed THEN acc
    ELSE CASE terminal.tag = "Invalid" -> [acc EXCEPT !.failed = TRUE]
           [] terminal.tag \in {"LinkBlock", "LinkBlockFast"} ->
                [acc EXCEPT !.next = Append(@, terminal.next)]
           [] terminal.tag \in {"If", "CheckBit"} ->
                AppendNextBlocksToList_ElseFirst(
                    AppendNextBlocksToList_ElseFirst(acc, terminal.else_), terminal.then_)
           [] terminal.tag = "CheckHalt" ->
                AppendNextBlocksToList_ElseFirst(acc, terminal.else_)
           [] OTHER -> acc

\* AppendNextBlocksToList: acc is [next, failed]; failed records the
\* ASSERT_FALSE on an Invalid terminal.
RECURSIVE AppendNextBlocksToList(_, _)
AppendNextBlocksToList(acc, terminal) ==
    IF acc.failed THEN acc
    ELSE CASE terminal.tag = "Invalid" -> [acc EXCEPT !.failed = TRUE]
           [] terminal.tag = "ReturnToDispatch" -> acc
           [] terminal.tag = "LinkBlock" -> [acc EXCEPT !.next = Append(@, terminal.next)]
           [] terminal.tag = "LinkBlockFast" -> [acc EXCEPT !.next = Append(@, terminal.next)]
           [] terminal.tag = "PopRSBHint" -> acc
           [] terminal.tag = "FastDispatchHint" -> acc
           [] terminal.tag = "If" ->
                AppendNextBlocksToList(AppendNextBlocksToList(acc, terminal.then_), terminal.else_)
           [] terminal.tag = "CheckBit" ->
                AppendNextBlocksToList(AppendNextBlocksToList(acc, terminal.then_), terminal.else_)
           [] terminal.tag = "CheckHalt" -> AppendNextBlocksToList(acc, terminal.else_)

\* An IR block: its location, whether its body has a guest memory read (and
\* whether a fault there asks for recompilation), the descriptor a PushRSB in
\* its body names (0: none), and its terminal.
IRBlock(location, mem_access, recompile, push_rsb, terminal) ==
    [location |-> location, mem_access |-> mem_access, recompile |-> recompile,
     push_rsb |-> push_rsb, terminal |-> terminal]

SuccDescriptor(d) == (d % MaxDescriptor) + 1

PredDescriptor(d) == IF d = 1 THEN MaxDescriptor ELSE d - 1

NumPrograms == 2

\* The blocks the IR producer can return for descriptor d. Guest code at a
\* location of the first class is rewritten by the guest, so GenerateIR may
\* read either of two programs there; the other locations hold fixed code.
\*   d % 3 = 1: a conditional jump to the two neighbours, or a loop on d
\*              itself that pushes the next location as a return prediction
\*              (a third program, a conditional jump whose two branches go
\*              to the same neighbour, is read only by the stepwise Compile
\*              of SpecCompile);
\*   d % 3 = 2: a memory read (a fault there asks for recompilation), then
\*              a return to the dispatcher;
\*   d % 3 = 0: a memory read (no recompilation), then a jump to the next
\*              location.
Program(d, i) ==
    CASE d % 3 = 1 /\ i = 1 ->
            IRBlock(d, FALSE, FALSE, 0,
                    If(LinkBlock(SuccDescriptor(d)), LinkBlockFast(PredDescriptor(d))))
      [] d % 3 = 1 /\ i = 2 ->
            IRBlock(d, FALSE, FALSE, SuccDescriptor(d), LinkBlock(d))
      [] d % 3 = 1 /\ i = 3 ->
            IRBlock(d, FALSE, FALSE, 0,
                    If(LinkBlock(SuccDescriptor(d)), LinkBlockFast(SuccDescriptor(d))))
      [] d % 3 = 2 ->
            IRBlock(d, TRUE, TRUE, 0, ReturnToDispatch)
      [] d % 3 = 0 ->
            IRBlock(d, TRUE, FALSE, 0, LinkBlock(SuccDescriptor(d)))

\* What guest memory can hold during one call: a program index per location.
Generators ==
    { gen \in [LocationDescriptors -> 1..NumPrograms] :
        \A d \in LocationDescriptors : d % 3 # 1 => gen[d] = 1 }

\* GenerateIR(descriptor): gen is what guest memory holds during this call.
GenerateIR(descriptor, gen) == Program(descriptor, gen[descriptor])

(***************************************************************************)
(* The host-code emitter (EmitArm64)                                       *)
(***************************************************************************)
Item(kind, link, desc, type) == [kind |-> kind, link |-> link, desc |-> desc, type |-> type]

CodeItem == Item("code", "", 0, "")

RelocItem(target) == Item("reloc", target, 0, "")

BlockRelocItem(desc, type) == Item("blockreloc", "", desc, type)

\* Host instructions emitted for a terminal.
RECURSIVE EmitTerminal(_)
EmitTerminal(terminal) ==
    CASE terminal.tag = "ReturnToDispatch" -> << RelocItem("ReturnToDispatcher") >>
      [] terminal.tag = "PopRSBHint" -> << RelocItem("ReturnToDispatcher") >>
      [] terminal.tag = "FastDispatchHint" -> << RelocItem("ReturnToDispatcher") >>
      [] terminal.tag = "LinkBlock" ->
            << BlockRelocItem(terminal.next, "Branch"), RelocItem("ReturnToDispatcher") >>
      [] terminal.tag = "LinkBlockFast" ->
            << BlockRelocItem(terminal.next, "Branch"), RelocItem("ReturnToDispatcher") >>
      [] terminal.tag = "If" ->
            << CodeItem >> \o EmitTerminal(terminal.else_) \o EmitTerminal(terminal.then_)
      [] terminal.tag = "CheckBit" ->
            << CodeItem >> \o EmitTerminal(terminal.else_) \o EmitTerminal(terminal.then_)
      [] terminal.tag = "CheckHalt" ->
            << RelocItem("ReturnFromRunCode") >> \o EmitTerminal(terminal.else_)
      [] OTHER -> << >>

\* The marker of the (single) memory access of a block.
MarkerOf(location) == << location, 0 >>

\* The items of a block, in emission order: memory access (inline fastmem
\* load, or a call of the accessor when the site is marked do-not-fastmem),
\* PushRSB, terminal, and the fastmem site's out-of-line thunk.
BlockItems(ir, do_not_fastmem_) ==
    LET fast == ir.mem_access /\ MarkerOf(ir.location) \notin do_not_fastmem_
    IN  (IF ir.mem_access
            THEN (IF fast THEN << Item("fastmem", "", 0, "") >>
                          ELSE << RelocItem("ReadMemory32") >>)
            ELSE << >>)
        \o (IF ir.push_rsb # 0 THEN << BlockRelocItem(ir.push_rsb, "MoveToScratch1") >> ELSE << >>)
        \o EmitTerminal(ir.terminal)
        \o (IF fast THEN << Item("thunk", "", 0, "") >> ELSE << >>)

\* Instruction words an item occupies.
ItemWidth(item) ==
    IF item.kind = "blockreloc" /\ item.type = "MoveToScratch1" THEN 2 ELSE 1

RECURSIVE ItemsWidth(_)
ItemsWidth(items) ==
    IF items = << >> THEN 0 ELSE ItemWidth(Head(items)) + ItemsWidth(Tail(items))

\* Byte offset of the i-th item from the block's entry point.
ItemOffset(items, i) == InsnSize * ItemsWidth(SubSeq(items, 1, i - 1))

\* The words the emitter writes for an item; slots hold placeholders until Link.
ItemWords(item) == IF ItemWidth(item) = 2 THEN << NOP, NOP >>
                   ELSE IF item.kind \in {"reloc", "blockreloc"} THEN << NOP >>
                   ELSE << CODE >>

RECURSIVE ItemsWords(_)
ItemsWords(items) ==
    IF items = << >> THEN << >> ELSE ItemWords(Head(items)) \o ItemsWords(Tail(items))

Relocation(ptr_offset, target) == [ptr_offset |-> ptr_offset, target |-> target]

BlockRelocation(ptr_offset, type) == [ptr_offset |-> ptr_offset, type |-> type]

\* The elements of a finite set of numbers, in increasing order.
RECURSIVE Ascending(_)
Ascending(S) ==
    IF S = {} THEN << >>
    ELSE LET m == CHOOSE x \in S : \A y \in S : x <= y
         IN  << m >> \o Ascending(S \ {m})

\* The EmittedBlockInfo of a block of the given items emitted at the cursor,
\* and the words written there.
EmittedBlock(cursor, ir, items) ==
    LET relocIdx == Ascending({ j \in 1..Len(items) : items[j].kind = "reloc" })
        ListFor(d) ==
            LET idx == Ascending({ j \in 1..Len(items) :
                                     items[j].kind = "blockreloc" /\ items[j].desc = d })
            IN  [k \in 1..Len(idx) |-> BlockRelocation(ItemOffset(items, idx[k]), items[idx[k]].type)]
    IN  [ block_info |->
            [ entry_point |-> cursor,
              size |-> InsnSize * ItemsWidth(items),
              relocations |->
                [k \in 1..Len(relocIdx) |->
                    Relocation(ItemOffset(items, relocIdx[k]), items[relocIdx[k]].link)],
              block_relocations |->
                [d \in { items[i].desc : i \in { j \in 1..Len(items) : items[j].kind = "blockreloc" } }
                    |-> ListFor(d)],
              fastmem_patch_info |->
                [o \in { ItemOffset(items, j) : j \in { i \in 1..Len(items) : items[i].kind = "fastmem" } } |->
                    [ fc |-> [call_pc |-> cursor + ItemOffset(items,
                                CHOOSE j \in 1..Len(items) : items[j].kind = "thunk")],
                      recompile |-> ir.recompile,
                      marker |-> MarkerOf(ir.location) ]] ],
          words |-> ItemsWords(items) ]

\* EmitArm64(code, block, emit_config, fastmem_manager).
EmitArm64(cursor, ir, do_not_fastmem_) ==
    EmittedBlock(cursor, ir, BlockItems(ir, do_not_fastmem_))

(***************************************************************************)
(* The arena's words                                                       *)
(***************************************************************************)
\* The largest block the emitter produces for any program.
MaxBlockSize ==
    SetMax({ InsnSize * ItemsWidth(BlockItems(Program(d, i), {})) :
                d \in LocationDescriptors, i \in 1..NumPrograms })

\* Word addresses after the prelude that a block can occupy: a block is only
\* started while at least 1 MiB remains.
ArenaWords ==
    { a \in end_of_prelude..(end_of_prelude + InsnSize * HeadroomWords + MaxBlockSize - 1) :
        a % InsnSize = 0 }

UNWRITTEN == Insn("UNWRITTEN", 0)

\* Store a sequence of instruction words at addr.
RECURSIVE WriteWords(_, _, _)
WriteWords(m, addr, words) ==
    IF words = << >> THEN m
    ELSE WriteWords([m EXCEPT ![addr] = Head(words)], addr + InsnSize, Tail(words))

(***************************************************************************)
(* State of one AddressSpace                                               *)
(***************************************************************************)
VARIABLES
    block_entries,          \* LocationDescriptor -> CodePtr
    reverse_block_entries,  \* CodePtr -> LocationDescriptor (ordered map)
    block_infos,            \* CodePtr -> EmittedBlockInfo
    block_references,       \* LocationDescriptor -> set of CodePtr
    code_ptr,               \* code.ptr(): the arena's write cursor
    mem,                    \* the arena's instruction words after the prelude
    do_not_fastmem,         \* fastmem_manager's markers
    protection,             \* "Execute" (protected) or "Write" (unprotected)
    multi_block,            \* emit_config has OptimizationFlag::MultiBlockCompilation
    last,                   \* the last public call: its arguments, result and effects
    coproc,                 \* a run of the coprocessor emitter: instruction, emitted code, registers
    compiling,              \* a Compile call in progress: its locals between two statements
    call                    \* a call of a static function of the file: its arguments and result

vars == << block_entries, reverse_block_entries, block_infos, block_references,
           code_ptr, mem, do_not_fastmem, protection, multi_block, last, coproc,
           compiling, call >>

\* The state as one record; the operations below map records to records.
\* failed is "none" until a fatal assertion (ASSERT, ASSERT_FALSE) ends the
\* program; result, cleared, invalidated, emitted and queued describe the
\* call in progress; trace holds the maps and the arena as they were after
\* each statement of the call that changed a map or a slot, stores the arena
\* as it was after each instruction word stored into a slot, dirty the words
\* written since the call began that no instruction-cache flush has covered
\* since, skipped the (descriptor, code pointer) pairs for which a presence
\* guard of RelinkForDescriptor found nothing, exposed the words written
\* while the arena was not writable, nested whether an unprotect() or a
\* protect() found the arena already in the state it asks for.
State ==
    [ block_entries |-> block_entries,
      reverse_block_entries |-> reverse_block_entries,
      block_infos |-> block_infos,
      block_references |-> block_references,
      code_ptr |-> code_ptr,
      mem |-> mem,
      do_not_fastmem |-> do_not_fastmem,
      protection |-> protection,
      multi_block |-> multi_block,
      failed |-> "none",
      result |-> nullptr,
      cleared |-> FALSE,
      invalidated |-> {},
      emitted |-> << >>,
      queued |-> << >>,
      next |-> << >>,
      unprotected |-> FALSE,
      trace |-> << >>,
      stores |-> << >>,
      dirty |-> {},
      skipped |-> {},
      exposed |-> {},
      nested |-> FALSE ]

Fail_Ignored(s, what) == s

\* A fatal assertion: the first one ends the program.
Fail(s, what) == IF s.failed = "none" THEN [s EXCEPT !.failed = what] ELSE s

unprotect_Forgotten(s) == [s EXCEPT !.unprotected = TRUE]

\* mem.unprotect(); unprotected records that the call made the arena
\* writable, nested that it was writable already.
unprotect(s) ==
    [s EXCEPT !.protection = "Write",
              !.unprotected = TRUE,
              !.nested = @ \/ s.protection = "Write"]

\* mem.protect(); nested records a protect() that matches no unprotect().
protect(s) ==
    [s EXCEPT !.protection = "Execute",
              !.nested = @ \/ s.protection = "Execute"]

\* A write of n instruction words at addr leaves them stale in the
\* instruction cache until a flush covers them; exposed records a write
\* into an arena that is not writable.
Written(s, addr, n) ==
    [s EXCEPT !.dirty = @ \cup { addr + InsnSize * k : k \in 0..(n - 1) },
              !.exposed = IF s.protection = "Write" THEN @
                          ELSE @ \cup { addr + InsnSize * k : k \in 0..(n - 1) }]

invalidate_Nothing(s, ptr, size) == s

\* mem.invalidate(ptr, size): an instruction-cache flush of [ptr, ptr + size);
\* no effect on the maps.
invalidate(s, ptr, size) == [s EXCEPT !.dirty = @ \ (ptr..(ptr + size - 1))]

\* The maps and the arena between two statements of the operation named.
Snapshot(s, operation) ==
    [s EXCEPT !.trace = Append(@, [ operation |-> operation,
                                    block_entries |-> s.block_entries,
                                    block_infos |-> s.block_infos,
                                    mem |-> s.mem,
                                    protection |-> s.protection ])]

(***************************************************************************)
(* Lookups                                                                 *)
(***************************************************************************)
Get(s, descriptor) ==
    IF descriptor \in Keys(s.block_entries) THEN s.block_entries[descriptor] ELSE nullptr

\* std::map::upper_bound on the ordered keys: the index of the first key
\* greater than host_pc (one past the end when there is none).
upper_bound(keys, host_pc) ==
    IF \E i \in 1..Len(keys) : keys[i] > host_pc
        THEN CHOOSE i \in 1..Len(keys) :
                keys[i] > host_pc /\ \A j \in 1..(i - 1) : ~(keys[j] > host_pc)
        ELSE Len(keys) + 1

ReverseGetEntryPoint_NoDecrement(s, host_pc) ==
    LET keys == Ascending(Keys(s.reverse_block_entries))
        iter == upper_bound(keys, host_pc)
    IN  IF iter # 1 /\ iter <= Len(keys) THEN keys[iter] ELSE nullptr

ReverseGetEntryPoint_Strict(s, host_pc) ==
    LET keys == Ascending(Keys(s.reverse_block_entries))
        iter == upper_bound(keys, host_pc - 1)
    IN  IF iter # 1 THEN keys[iter - 1] ELSE nullptr

ReverseGetEntryPoint(s, host_pc) ==
    LET keys == Ascending(Keys(s.reverse_block_entries))
        iter == upper_bound(keys, host_pc)
    IN  IF iter # 1 THEN keys[iter - 1] ELSE nullptr

\* 0 stands for std::nullopt.
ReverseGetLocation(s, host_pc) ==
    LET keys == Ascending(Keys(s.reverse_block_entries))
        iter == upper_bound(keys, host_pc)
    IN  IF iter # 1 THEN s.reverse_block_entries[keys[iter - 1]] ELSE 0

GetRemainingSize(s) == code_cache_size - (s.code_ptr - MemBase)

IsNearlyFull_Inclusive(s) == GetRemainingSize(s) <= NearlyFullThreshold

IsNearlyFull(s) == GetRemainingSize(s) < NearlyFullThreshold

(***************************************************************************)
(* ClearCache                                                              *)
(***************************************************************************)
\* code.set_ptr(p): the cursor moves to p. The words at and after the cursor
\* are free space that nothing reads before the emitter overwrites it; the
\* model holds them as UNWRITTEN.
set_ptr(s, p) ==
    [s EXCEPT !.code_ptr = p,
              !.mem = [a \in DOMAIN @ |-> IF a >= p THEN UNWRITTEN ELSE @[a]]]

ClearCache_ToArenaBase(s) ==
    [set_ptr(s, MemBase)
        EXCEPT !.block_entries = EmptyMap,
               !.reverse_block_entries = EmptyMap,
               !.block_infos = EmptyMap,
               !.block_references = EmptyMap,
               !.cleared = TRUE]

ClearCache_KeepsInfos(s) ==
    [set_ptr(s, end_of_prelude)
        EXCEPT !.block_entries = EmptyMap,
               !.reverse_block_entries = EmptyMap,
               !.block_references = EmptyMap,
               !.cleared = TRUE]

ClearMaps_KeepsReferences(s) ==
    [Snapshot([Snapshot([Snapshot([s EXCEPT !.block_entries = EmptyMap], "ClearCache")
                            EXCEPT !.reverse_block_entries = EmptyMap], "ClearCache")
                  EXCEPT !.block_infos = EmptyMap], "ClearCache")
        EXCEPT !.block_references = @]

\* The four clear() calls, in the order of the code.
ClearMaps(s) ==
    [Snapshot([Snapshot([Snapshot([s EXCEPT !.block_entries = EmptyMap], "ClearCache")
                            EXCEPT !.reverse_block_entries = EmptyMap], "ClearCache")
                  EXCEPT !.block_infos = EmptyMap], "ClearCache")
        EXCEPT !.block_references = EmptyMap]

ClearCache(s) == [set_ptr(ClearMaps(s), end_of_prelude) EXCEPT !.cleared = TRUE]

(***************************************************************************)
(* Linking                                                                 *)
(***************************************************************************)
\* CodeGenerator c{at} emitting words: each word is stored in turn, done of
\* them so far. stores records the arena after each store, with the arena as
\* it was when the patch began, the patch and the number of words stored.
RECURSIVE StoreWords(_, _, _, _, _)
StoreWords(s, before, at, words, done) ==
    IF done = Len(words) THEN s
    ELSE StoreWords([s EXCEPT !.mem[at + InsnSize * done] = words[done + 1],
                              !.dirty = @ \cup { at + InsnSize * done },
                              !.exposed = IF s.protection = "Write" THEN @
                                          ELSE @ \cup { at + InsnSize * done },
                              !.stores = Append(@,
                                [ mem |-> [s.mem EXCEPT ![at + InsnSize * done] = words[done + 1]],
                                  before |-> before,
                                  at |-> at,
                                  words |-> words,
                                  done |-> done + 1 ])],
                    before, at, words, done + 1)

\* LinkBlockLinks: patch every slot of the list, first to last.
RECURSIVE LinkBlockLinks(_, _, _, _, _)
LinkBlockLinks(s, entry_point, target_ptr, block_relocations_list, dispatcher) ==
    IF block_relocations_list = << >> \/ s.failed # "none" THEN s
    ELSE LET r == Head(block_relocations_list)
             at == entry_point + r.ptr_offset
             patched ==
                CASE r.type = "Branch" ->
                        StoreWords(s, s.mem, at,
                            << IF target_ptr # nullptr THEN B(target_ptr) ELSE NOP >>, 0)
                  [] r.type = "MoveToScratch1" ->
                        StoreWords(s, s.mem, at,
                            IF target_ptr # nullptr THEN ADRL(target_ptr) ELSE ADRL(dispatcher),
                            0)
                  [] OTHER -> Fail(s, "Invalid BlockRelocationType")
         IN  LinkBlockLinks(Snapshot(patched, "LinkBlockLinks"), entry_point, target_ptr,
                            Tail(block_relocations_list), dispatcher)

\* The branch Link writes for a prelude helper: B for the two returns, BL
\* (a call) for every other helper.
LinkTargetInsn(target) ==
    IF target \in {"ReturnToDispatcher", "ReturnFromRunCode"}
        THEN B(prelude_info(target))
        ELSE BL(prelude_info(target))

RECURSIVE LinkRelocations(_, _, _)
LinkRelocations(s, entry_point, relocations) ==
    IF relocations = << >> \/ s.failed # "none" THEN s
    ELSE LET r == Head(relocations)
             patched ==
                IF \E i \in 1..Len(LinkTargets) : LinkTargets[i] = r.target
                    THEN Written([s EXCEPT !.mem = WriteWords(@, entry_point + r.ptr_offset,
                                                              << LinkTargetInsn(r.target) >>)],
                                 entry_point + r.ptr_offset, 1)
                    ELSE Fail(s, "Invalid relocation target")
         IN  LinkRelocations(patched, entry_point, Tail(relocations))

\* block_references[target_descriptor].emplace(code_ptr); operator[] creates the set.
AddReference_Forgotten(s, target_descriptor, code_ptr_) == s

AddReference(s, target_descriptor, code_ptr_) ==
    [s EXCEPT !.block_references =
        MapPut(@, target_descriptor,
               (IF target_descriptor \in Keys(@) THEN @[target_descriptor] ELSE {})
                   \cup {code_ptr_})]

\* The second loop of Link, over the keys of block_info.block_relocations.
RECURSIVE LinkBlockRelocations(_, _, _)
LinkBlockRelocations(s, block_info, targets) ==
    IF targets = << >> \/ s.failed # "none" THEN s
    ELSE LET target_descriptor == Head(targets)
             s1 == AddReference(s, target_descriptor, block_info.entry_point)
             s2 == LinkBlockLinks(s1, block_info.entry_point, Get(s1, target_descriptor),
                                  block_info.block_relocations[target_descriptor],
                                  return_to_dispatcher)
         IN  LinkBlockRelocations(s2, block_info, Tail(targets))

Link(s, block_info) ==
    LinkBlockRelocations(
        LinkRelocations(s, block_info.entry_point, block_info.relocations),
        block_info,
        Ascending(Keys(block_info.block_relocations)))

\* The loop of RelinkForDescriptor over the referencing blocks.
RECURSIVE RelinkBlocks(_, _, _, _)
RelinkBlocks(s, target_descriptor, target_ptr, code_ptrs) ==
    IF code_ptrs = << >> \/ s.failed # "none" THEN s
    ELSE LET code_ptr_ == Head(code_ptrs)
             s1 == IF code_ptr_ \in Keys(s.block_infos)
                     THEN LET block_info == s.block_infos[code_ptr_]
                          IN  invalidate(
                                IF target_descriptor \in Keys(block_info.block_relocations)
                                    THEN LinkBlockLinks(s, block_info.entry_point, target_ptr,
                                            block_info.block_relocations[target_descriptor],
                                            return_to_dispatcher)
                                    ELSE [s EXCEPT !.skipped =
                                            @ \cup {<< target_descriptor, code_ptr_ >>}],
                                block_info.entry_point, block_info.size)
                     ELSE [s EXCEPT !.skipped = @ \cup {<< target_descriptor, code_ptr_ >>}]
         IN  RelinkBlocks(s1, target_descriptor, target_ptr, Tail(code_ptrs))

RelinkForDescriptor(s, target_descriptor, target_ptr) ==
    LET s1 == IF target_descriptor \in Keys(s.block_references) THEN s
              ELSE [s EXCEPT !.block_references = MapPut(@, target_descriptor, {})]
    IN  RelinkBlocks(s1, target_descriptor, target_ptr,
                     Ascending(s1.block_references[target_descriptor]))

(***************************************************************************)
(* Emit and Compile                                                        *)
(***************************************************************************)
\* RegisterNewBasicBlock: a hook for profilers; no effect on the cache.
RegisterNewBasicBlock(s, ir, block_info) == s

EmplaceAll_NoReverse(s, location, block_info) ==
    IF location \in Keys(s.block_entries) THEN Fail(s, "ASSERT block_entries.emplace")
    ELSE IF block_info.entry_point \in Keys(s.block_infos)
        THEN Fail(s, "ASSERT block_infos.emplace")
    ELSE [s EXCEPT !.block_entries = MapPut(@, location, block_info.entry_point),
                   !.block_infos = MapPut(@, block_info.entry_point, block_info)]

\* The three ASSERT(map.emplace(...).second) of Emit: emplace leaves an
\* existing key alone and reports it, and the assertion is then fatal.
EmplaceAll(s, location, block_info) ==
    IF location \in Keys(s.block_entries) THEN Fail(s, "ASSERT block_entries.emplace")
    ELSE LET s1 == Snapshot([s EXCEPT !.block_entries =
                                        MapPut(@, location, block_info.entry_point)], "Emit")
         IN  IF block_info.entry_point \in Keys(s1.reverse_block_entries)
                THEN Fail(s1, "ASSERT reverse_block_entries.emplace")
             ELSE LET s2 == [s1 EXCEPT !.reverse_block_entries =
                                        MapPut(@, block_info.entry_point, location)]
                  IN  IF block_info.entry_point \in Keys(s2.block_infos)
                        THEN Fail(s2, "ASSERT block_infos.emplace")
                        ELSE Snapshot([s2 EXCEPT !.block_infos =
                                        MapPut(@, block_info.entry_point, block_info)], "Emit")

\* Emit once the block is in the arena and in the maps: Link,
\* RelinkForDescriptor and RegisterNewBasicBlock.
LinkAndRelink_NoRelink(s, ir, block_info) ==
    IF s.failed # "none" THEN s
    ELSE [Link(s, block_info) EXCEPT !.emitted = Append(@, ir.location)]

LinkAndRelink_RelinkFirst(s, ir, block_info) ==
    IF s.failed # "none" THEN s
    ELSE [RegisterNewBasicBlock(
              Link(RelinkForDescriptor(s, ir.location, block_info.entry_point), block_info),
              ir, block_info)
            EXCEPT !.emitted = Append(@, ir.location)]

LinkAndRelink(s, ir, block_info) ==
    IF s.failed # "none" THEN s
    ELSE [RegisterNewBasicBlock(
              RelinkForDescriptor(Link(s, block_info), ir.location, block_info.entry_point),
              ir, block_info)
            EXCEPT !.emitted = Append(@, ir.location)]

EmitEmitted_ShortAdvance(s, ir, e) ==
    LinkAndRelink(
        EmplaceAll(Written([s EXCEPT !.mem = WriteWords(@, s.code_ptr, e.words),
                                     !.code_ptr = @ + InsnSize],
                           s.code_ptr, Len(e.words)),
                   ir.location, e.block_info),
        ir, e.block_info)

\* Emit once EmitArm64 has returned e: the words are in the arena, the cursor
\* is past them, and the three emplaces follow.
EmitEmitted(s, ir, e) ==
    LinkAndRelink(
        EmplaceAll(Written([s EXCEPT !.mem = WriteWords(@, s.code_ptr, e.words),
                                     !.code_ptr = @ + e.block_info.size],
                           s.code_ptr, Len(e.words)),
                   ir.location, e.block_info),
        ir, e.block_info)

Emit(s, ir) == EmitEmitted(s, ir, EmitArm64(s.code_ptr, ir, s.do_not_fastmem))

\* The do_block lambda of Compile; the worklist next is held in the record.
do_block(s, descriptor, gen) ==
    LET ir_block == GenerateIR(descriptor, gen)
        appended == AppendNextBlocksToList([next |-> s.next, failed |-> FALSE],
                                           ir_block.terminal)
    IN  IF appended.failed
            THEN Fail(s, "Invalid terminal")
            ELSE Emit([s EXCEPT !.next = appended.next,
                                !.queued = @ \o SubSeq(appended.next, Len(s.next) + 1,
                                                       Len(appended.next))],
                      ir_block)

pop_front(s) == [s EXCEPT !.next = Tail(@)]

CompileLoop_DropsRest(s, gen) ==
    IF s.failed # "none" \/ s.next = << >> \/ IsNearlyFull(s) THEN s
    ELSE IF Get(s, Head(s.next)) = nullptr
        THEN do_block(pop_front(s), Head(s.next), gen)
        ELSE s

CompileIteration_KeepsResident(s, gen) ==
    IF Get(s, Head(s.next)) = nullptr
        THEN do_block(pop_front(s), Head(s.next), gen)
        ELSE s

CompileIteration_EmitsResident(s, gen) ==
    do_block(pop_front(s), Head(s.next), gen)

\* The body of the worklist loop of Compile.
CompileIteration(s, gen) ==
    IF Get(s, Head(s.next)) = nullptr
        THEN do_block(pop_front(s), Head(s.next), gen)
        ELSE pop_front(s)

\* The worklist loop of Compile.
RECURSIVE CompileLoop(_, _)
CompileLoop(s, gen) ==
    IF s.failed # "none" \/ s.next = << >> \/ IsNearlyFull(s) THEN s
    ELSE CompileLoop(CompileIteration(s, gen), gen)

\* The end of Compile: flush, protect, and return the entry point the first
\* do_block returned, the block emitted at starting_position.
CompileEnd(s, starting_position) ==
    IF s.failed # "none" THEN s
    ELSE [protect(invalidate(s, starting_position, s.code_ptr - starting_position))
            EXCEPT !.result = s.block_infos[starting_position].entry_point]

\* Compile after its first do_block.
CompileRest(first, starting_position, gen) ==
    IF first.failed # "none" THEN first
    ELSE CompileEnd(IF first.multi_block THEN CompileLoop(first, gen) ELSE first,
                    starting_position)

\* Compile up to the return of its first do_block.
CompileFirst(s, descriptor, gen) ==
    do_block([unprotect(s) EXCEPT !.next = << >>], descriptor, gen)

Compile(s, descriptor, gen) ==
    CompileRest(CompileFirst(s, descriptor, gen), s.code_ptr, gen)

GetOrEmit_AlwaysCompile(s, descriptor, gen) ==
    Compile(IF IsNearlyFull(s) THEN ClearCache(s) ELSE s, descriptor, gen)

GetOrEmit(s, descriptor, gen) ==
    IF Get(s, descriptor) # nullptr
        THEN [s EXCEPT !.result = Get(s, descriptor)]
        ELSE Compile(IF IsNearlyFull(s) THEN ClearCache(s) ELSE s, descriptor, gen)

(***************************************************************************)
(* InvalidateBasicBlocks                                                   *)
(***************************************************************************)
InvalidateLoop_NoUnlink(s, descriptors) ==
    [s EXCEPT !.block_entries =
        [d \in Keys(@) \ { descriptors[i] : i \in 1..Len(descriptors) } |-> @[d]]]

RECURSIVE InvalidateLoop_ErasesReverse(_, _)
InvalidateLoop_ErasesReverse(s, descriptors) ==
    IF descriptors = << >> \/ s.failed # "none" THEN s
    ELSE IF Head(descriptors) \notin Keys(s.block_entries)
        THEN InvalidateLoop_ErasesReverse(s, Tail(descriptors))
        ELSE InvalidateLoop_ErasesReverse(
                [RelinkForDescriptor(s, Head(descriptors), nullptr)
                    EXCEPT !.block_entries = MapErase(@, Head(descriptors)),
                           !.reverse_block_entries =
                               MapErase(@, s.block_entries[Head(descriptors)])],
                Tail(descriptors))

RECURSIVE InvalidateLoop_EraseFirst(_, _)
InvalidateLoop_EraseFirst(s, descriptors) ==
    IF descriptors = << >> \/ s.failed # "none" THEN s
    ELSE IF Head(descriptors) \notin Keys(s.block_entries)
        THEN InvalidateLoop_EraseFirst(s, Tail(descriptors))
        ELSE InvalidateLoop_EraseFirst(
                RelinkForDescriptor(
                    Snapshot([s EXCEPT !.block_entries = MapErase(@, Head(descriptors))],
                             "InvalidateBasicBlocks"),
                    Head(descriptors), nullptr),
                Tail(descriptors))

\* The loop of InvalidateBasicBlocks over the descriptors of the set.
RECURSIVE InvalidateLoop(_, _)
InvalidateLoop(s, descriptors) ==
    IF descriptors = << >> \/ s.failed # "none" THEN s
    ELSE LET descriptor == Head(descriptors)
         IN  IF descriptor \notin Keys(s.block_entries)
                THEN InvalidateLoop(s, Tail(descriptors))
                ELSE LET s1 == RelinkForDescriptor(s, descriptor, nullptr)
                         s2 == Snapshot([s1 EXCEPT !.block_entries = MapErase(@, descriptor)],
                                        "InvalidateBasicBlocks")
                     IN  InvalidateLoop(s2, Tail(descriptors))

InvalidateEnd_NoProtect(s, descriptors) ==
    IF s.failed # "none" THEN s
    ELSE [s EXCEPT !.invalidated = @ \cup descriptors]

\* The end of InvalidateBasicBlocks.
InvalidateEnd(s, descriptors) ==
    IF s.failed # "none" THEN s
    ELSE [protect(s) EXCEPT !.invalidated = @ \cup descriptors]

InvalidateBasicBlocks(s, descriptors) ==
    InvalidateEnd(InvalidateLoop(unprotect(s), Ascending(descriptors)), descriptors)

(***************************************************************************)
(* FastmemCallback                                                         *)
(***************************************************************************)
MarkDoNotFastmem_Forgotten(s, marker) == s

MarkDoNotFastmem(s, marker) == [s EXCEPT !.do_not_fastmem = @ \cup {marker}]

FastmemCallback(s, host_pc) ==
    LET entry_point == ReverseGetEntryPoint(s, host_pc)
    IN  IF entry_point = nullptr THEN Fail(s, "segfault")
        ELSE IF entry_point \notin Keys(s.block_infos) THEN Fail(s, "segfault")
        ELSE LET block_info == s.block_infos[entry_point]
             IN  IF (host_pc - entry_point) \notin Keys(block_info.fastmem_patch_info)
                    THEN Fail(s, "segfault")
                 ELSE LET patch_entry == block_info.fastmem_patch_info[host_pc - entry_point]
                          fc == patch_entry.fc
                          s1 == IF patch_entry.recompile
                                  THEN InvalidateBasicBlocks(
                                          MarkDoNotFastmem(s, patch_entry.marker),
                                          {patch_entry.marker[1]})
                                  ELSE s
                      IN  [s1 EXCEPT !.result = fc.call_pc]

(***************************************************************************)
(* The coprocessor dispatch emitter (emit_arm64_a32_coprocessor.cpp)       *)
(***************************************************************************)
\* Register operands: a register and the view (W: 32 bits, X: 64 bits).
Reg(r, w) == [r |-> r, w |-> w]

W1 == Reg("1", 32)

W2 == Reg("2", 32)

X0 == Reg("0", 64)

Xscratch0 == Reg("scratch0", 64)

Xscratch1 == Reg("scratch1", 64)

Wscratch1 == Reg("scratch1", 32)

\* The register the allocator realizes for the instruction's result or argument.
Wvalue == Reg("value", 32)

Xvalue == Reg("value", 64)

Wvalue1 == Reg("value1", 32)

Wvalue2 == Reg("value2", 32)

\* Host instructions of the emitter.
MOV(rd, imm) == [op |-> "MOV", rd |-> rd, imm |-> imm]

LDR(rt, rn) == [op |-> "LDR", rt |-> rt, rn |-> rn]

STR(rt, rn) == [op |-> "STR", rt |-> rt, rn |-> rn]

BLR(rn) == [op |-> "BLR", rn |-> rn]

BFI(rd, rn, lsb, width) == [op |-> "BFI", rd |-> rd, rn |-> rn, lsb |-> lsb, width |-> width]

\* EmitRelocation(code, ctx, target): a slot Link patches with a call.
EmitRelocation(target) == [op |-> "reloc", target |-> target]

\* The seven opcodes and the type of the value each produces.
CoprocOpcodes ==
    { "A32CoprocInternalOperation", "A32CoprocSendOneWord", "A32CoprocSendTwoWords",
      "A32CoprocGetOneWord", "A32CoprocGetTwoWords", "A32CoprocLoadWords",
      "A32CoprocStoreWords" }

GetType(opcode) ==
    CASE opcode = "A32CoprocGetOneWord" -> "U32"
      [] opcode = "A32CoprocGetTwoWords" -> "U64"
      [] OTHER -> "Void"

\* The emit context: the code emitted so far and the register the
\* allocator was told holds the instruction's result ("none": not defined).
EmitContext(conf) == [code |-> << >>, defined |-> "none", conf |-> conf]

code_emit(ctx, insns) == [ctx EXCEPT !.code = @ \o insns]

DefineAsRegister(ctx, reg) == [ctx EXCEPT !.defined = reg.r]

EmitCoprocessorException_NoDefine(ctx, inst) ==
    code_emit(ctx, << MOV(W1, inst.pc),
                      MOV(W2, "InvalidCoprocessorInstruction"),
                      EmitRelocation("ExceptionRaised") >>)

EmitCoprocessorException(ctx, inst) ==
    IF GetType(inst.opcode) # "Void"
        THEN DefineAsRegister(
                code_emit(ctx, << MOV(W1, inst.pc),
                                  MOV(W2, "InvalidCoprocessorInstruction"),
                                  EmitRelocation("ExceptionRaised") >>),
                X0)
        ELSE code_emit(ctx, << MOV(W1, inst.pc),
                               MOV(W2, "InvalidCoprocessorInstruction"),
                               EmitRelocation("ExceptionRaised") >>)

\* defines: the call is given the instruction (inst != nullptr).
CallCoprocCallback(ctx, callback, defines) ==
    IF defines
        THEN DefineAsRegister(
                code_emit(ctx, (IF callback.user_arg # "none"
                                    THEN << MOV(X0, callback.user_arg) >> ELSE << >>)
                               \o << MOV(Xscratch0, callback.function), BLR(Xscratch0) >>),
                X0)
        ELSE code_emit(ctx, (IF callback.user_arg # "none"
                                THEN << MOV(X0, callback.user_arg) >> ELSE << >>)
                            \o << MOV(Xscratch0, callback.function), BLR(Xscratch0) >>)

\* The opcodes whose compile method returns std::optional<Callback>.
EmitIR_CallbackOnly(ctx, inst, action) ==
    IF action.kind = "None" THEN EmitCoprocessorException(ctx, inst)
    ELSE CallCoprocCallback(ctx, action, FALSE)

EmitIR_A32CoprocSendOneWord(ctx, inst, action) ==
    CASE action.kind = "None" -> EmitCoprocessorException(ctx, inst)
      [] action.kind = "Callback" -> CallCoprocCallback(ctx, action, FALSE)
      [] action.kind = "Ptr" ->
            code_emit(ctx, << MOV(Xscratch0, action.ptrs[1]), STR(Wvalue, Xscratch0) >>)

EmitIR_A32CoprocSendTwoWords(ctx, inst, action) ==
    CASE action.kind = "None" -> EmitCoprocessorException(ctx, inst)
      [] action.kind = "Callback" -> CallCoprocCallback(ctx, action, FALSE)
      [] action.kind = "Ptr" ->
            code_emit(ctx, << MOV(Xscratch0, action.ptrs[1]), MOV(Xscratch1, action.ptrs[2]),
                              STR(Wvalue1, Xscratch0), STR(Wvalue2, Xscratch1) >>)

EmitIR_A32CoprocGetOneWord(ctx, inst, action) ==
    CASE action.kind = "None" -> EmitCoprocessorException(ctx, inst)
      [] action.kind = "Callback" -> CallCoprocCallback(ctx, action, TRUE)
      [] action.kind = "Ptr" ->
            DefineAsRegister(
                code_emit(ctx, << MOV(Xscratch0, action.ptrs[1]), LDR(Wvalue, Xscratch0) >>),
                Wvalue)

EmitIR_A32CoprocGetTwoWords_NoBFI(ctx, inst, action) ==
    CASE action.kind = "None" -> EmitCoprocessorException(ctx, inst)
      [] action.kind = "Callback" -> CallCoprocCallback(ctx, action, TRUE)
      [] action.kind = "Ptr" ->
            DefineAsRegister(
                code_emit(ctx, << MOV(Xscratch0, action.ptrs[1]), MOV(Xscratch1, action.ptrs[2]),
                                  LDR(Xvalue, Xscratch0), LDR(Wscratch1, Xscratch1) >>),
                Xvalue)

EmitIR_A32CoprocGetTwoWords(ctx, inst, action) ==
    CASE action.kind = "None" -> EmitCoprocessorException(ctx, inst)
      [] action.kind = "Callback" -> CallCoprocCallback(ctx, action, TRUE)
      [] action.kind = "Ptr" ->
            DefineAsRegister(
                code_emit(ctx, << MOV(Xscratch0, action.ptrs[1]), MOV(Xscratch1, action.ptrs[2]),
                                  LDR(Xvalue, Xscratch0), LDR(Wscratch1, Xscratch1),
                                  BFI(Xvalue, Xscratch1, 32, 32) >>),
                Xvalue)

\* EmitIR<opcode> once the coprocessor is known to be present.
EmitIR_Compiled(ctx, inst, action) ==
    CASE inst.opcode = "A32CoprocSendOneWord" -> EmitIR_A32CoprocSendOneWord(ctx, inst, action)
      [] inst.opcode = "A32CoprocSendTwoWords" -> EmitIR_A32CoprocSendTwoWords(ctx, inst, action)
      [] inst.opcode = "A32CoprocGetOneWord" -> EmitIR_A32CoprocGetOneWord(ctx, inst, action)
      [] inst.opcode = "A32CoprocGetTwoWords" -> EmitIR_A32CoprocGetTwoWords(ctx, inst, action)
      [] OTHER -> EmitIR_CallbackOnly(ctx, inst, action)

\* EmitIR<opcode>(code, ctx, inst): conf.coprocessors[coproc_num] is null
\* (present FALSE) or a coprocessor, whose compile method returns the action
\* compiled.
EmitIR(ctx, inst) ==
    IF ~ctx.conf.coprocessors[inst.coproc_num].present
        THEN EmitCoprocessorException(ctx, inst)
        ELSE EmitIR_Compiled(ctx, inst, ctx.conf.coprocessors[inst.coproc_num].compiled)

\* The run of the emitter is not part of an AddressSpace's calls.
CoprocIdle == [phase |-> "idle"]

\* No Compile call is between two of its statements.
CompileIdle == [phase |-> "idle"]

\* No static function is called on its own.
CallIdle == [phase |-> "idle"]

(***************************************************************************)
(* The state machine: one action per public call                           *)
(***************************************************************************)
Init ==
    /\ block_entries = EmptyMap
    /\ reverse_block_entries = EmptyMap
    /\ block_infos = EmptyMap
    /\ block_references = EmptyMap
    /\ code_ptr = end_of_prelude
    /\ mem = [a \in ArenaWords |-> UNWRITTEN]
    /\ do_not_fastmem = {}
    /\ protection = "Execute"
    /\ multi_block \in BOOLEAN
    /\ last = [op |-> "Init", descriptor |-> 0, result |-> nullptr, cleared |-> FALSE]
    /\ coproc = CoprocIdle
    /\ compiling = CompileIdle
    /\ call = CallIdle

\* The state becomes s, and last records the call: its name, the descriptor
\* it was given (0: none), what it returned (for FastmemCallback the fake
\* call's call_pc) and whether it ran ClearCache.
\* A call that ends in a fatal assertion aborts the process: no state follows.
Becomes(s, op, descriptor) ==
    /\ s.failed = "none"
    /\ block_entries' = s.block_entries
    /\ reverse_block_entries' = s.reverse_block_entries
    /\ block_infos' = s.block_infos
    /\ block_references' = s.block_references
    /\ code_ptr' = s.code_ptr
    /\ mem' = s.mem
    /\ do_not_fastmem' = s.do_not_fastmem
    /\ protection' = s.protection
    /\ multi_block' = s.multi_block
    /\ last' = [op |-> op, descriptor |-> descriptor, result |-> s.result,
                cleared |-> s.cleared]
    /\ coproc' = coproc
    /\ compiling' = compiling
    /\ call' = call

GetOrEmitCall ==
    /\ \E descriptor \in LocationDescriptors :
       \E gen \in Generators :
          /\ \E s \in {GetOrEmit(State, descriptor, gen)} :
                Becomes(s, "GetOrEmit", descriptor)

InvalidateBasicBlocksCall ==
    /\ \E descriptors \in SUBSET LocationDescriptors :
       \E s \in {InvalidateBasicBlocks(State, descriptors)} :
          Becomes(s, "InvalidateBasicBlocks", 0)

ClearCacheCall ==
    /\ \E s \in {ClearCache(State)} : Becomes(s, "ClearCache", 0)

\* A fault at an instruction of the arena (in the prelude or in the emitted
\* part): the exception handler calls FastmemCallback.
FastmemCallbackCall ==
    /\ \E host_pc \in { a \in ArenaWords : a < code_ptr } \cup {return_to_dispatcher} :
       \E s \in {FastmemCallback(State, host_pc)} :
          Becomes(s, "FastmemCallback", 0)

Next ==
    \/ GetOrEmitCall
    \/ InvalidateBasicBlocksCall
    \/ ClearCacheCall
    \/ FastmemCallbackCall

Spec == Init /\ [][Next]_vars

(***************************************************************************)
(* Running the coprocessor emitter and the code it emits                   *)
(***************************************************************************)
\* Guest program counters and coprocessor indices of the instructions drawn.
GuestPCs == { 256, 260 }

CoprocNums == { 7, 15 }

\* The indices of the coprocessors that are configured; every other entry of
\* conf.coprocessors is absent.
PresentCoprocs == { 15 }

\* 32-bit words as four bytes, least significant first.
Words ==
    { << 0, 0, 0, 0 >>, << 170, 170, 170, 170 >>, << 187, 187, 187, 187 >>,
      << 255, 255, 255, 127 >> }

\* Host addresses of the memory cells a coprocessor hands out.
CellBase == 16

WordSize == 4

CellMemory == CellBase..(CellBase + 3 * WordSize - 1)

RegisterNames == { "0", "1", "2", "scratch0", "scratch1", "value", "value1", "value2" }

\* The actions a compile method can return for an opcode: none, a callback
\* (with or without user argument), and for the send and get opcodes one
\* cell or two cells.
CompiledActions(opcode, second) ==
    { [kind |-> "None"],
      [kind |-> "Callback", function |-> "function", user_arg |-> "none"],
      [kind |-> "Callback", function |-> "function", user_arg |-> "user_arg"] }
    \cup (IF opcode \in {"A32CoprocSendOneWord", "A32CoprocGetOneWord"}
            THEN { [kind |-> "Ptr", ptrs |-> << CellBase >>] } ELSE {})
    \cup (IF opcode \in {"A32CoprocSendTwoWords", "A32CoprocGetTwoWords"}
            THEN { [kind |-> "Ptr", ptrs |-> << CellBase, second >>] } ELSE {})

Coprocessors(action) ==
    [n \in 0..15 |->
        IF n \in PresentCoprocs
            THEN [present |-> TRUE, compiled |-> action]
            ELSE [present |-> FALSE, compiled |-> [kind |-> "None"]]]

\* Bit i of a small natural number, and the number of the low n bits.
NatBit(n, i) == IF i < 16 THEN (n \div (2 ^ i)) % 2 ELSE 0

RECURSIVE BitsToNat(_, _)
BitsToNat(bits, n) == IF n = 0 THEN 0 ELSE bits[n - 1] * (2 ^ (n - 1)) + BitsToNat(bits, n - 1)

\* A register holding a 32-bit word, zero-extended.
WordBits(word) == [i \in 0..63 |-> IF i < 32 THEN NatBit(word[(i \div 8) + 1], i % 8) ELSE 0]

\* One instruction on the machine m = [regs, mem]: regs maps a register to
\* its 64 bits, mem an address to a byte.
Execute(m, insn) ==
    CASE insn.op = "MOV" ->
            [m EXCEPT !.regs[insn.rd.r] =
                [i \in 0..63 |-> IF i < insn.rd.w THEN NatBit(insn.imm, i) ELSE 0]]
      [] insn.op = "LDR" ->
            [m EXCEPT !.regs[insn.rt.r] =
                [i \in 0..63 |->
                    IF i < insn.rt.w
                        THEN NatBit(m.mem[BitsToNat(m.regs[insn.rn.r], 16) + (i \div 8)], i % 8)
                        ELSE 0]]
      [] insn.op = "STR" ->
            [m EXCEPT !.mem =
                [a \in DOMAIN @ |->
                    IF a - BitsToNat(m.regs[insn.rn.r], 16) \in 0..((insn.rt.w \div 8) - 1)
                        THEN BitsToNat([i \in 0..7 |->
                                m.regs[insn.rt.r][8 * (a - BitsToNat(m.regs[insn.rn.r], 16)) + i]], 8)
                        ELSE @[a]]]
      [] insn.op = "BFI" ->
            [m EXCEPT !.regs[insn.rd.r] =
                [i \in 0..63 |->
                    IF i >= insn.lsb /\ i < insn.lsb + insn.width
                        THEN m.regs[insn.rn.r][i - insn.lsb]
                        ELSE @[i]]]

RECURSIVE Run(_, _)
Run(m, code) == IF code = << >> THEN m ELSE Run(Execute(m, Head(code)), Tail(code))

\* The cells in memory: the first cell at CellBase, four more bytes after
\* it, and the second cell at second (over those bytes when adjacent).
CellsInMemory(cells, second) ==
    [a \in CellMemory |->
        IF a - second \in 0..(WordSize - 1) THEN cells.cell2[a - second + 1]
        ELSE IF a - CellBase \in 0..(WordSize - 1) THEN cells.cell1[a - CellBase + 1]
        ELSE IF a - CellBase \in WordSize..(2 * WordSize - 1)
            THEN cells.following[a - CellBase - WordSize + 1]
        ELSE 0]

\* The machine before the emitted code runs: the argument registers of a
\* send hold the words drawn.
Machine(cells, second) ==
    [ regs |-> [r \in RegisterNames |->
                    CASE r = "value" -> WordBits(cells.following)
                      [] r = "value1" -> WordBits(cells.following)
                      [] r = "value2" -> WordBits(cells.cell1)
                      [] OTHER -> [i \in 0..63 |-> 0]],
      mem |-> CellsInMemory(cells, second) ]

InitCoproc ==
    /\ block_entries = EmptyMap
    /\ reverse_block_entries = EmptyMap
    /\ block_infos = EmptyMap
    /\ block_references = EmptyMap
    /\ code_ptr = end_of_prelude
    /\ mem = [a \in ArenaWords |-> UNWRITTEN]
    /\ do_not_fastmem = {}
    /\ protection = "Execute"
    /\ multi_block = FALSE
    /\ last = [op |-> "Init", descriptor |-> 0, result |-> nullptr, cleared |-> FALSE]
    /\ compiling = CompileIdle
    /\ call = CallIdle
    /\ \E opcode \in CoprocOpcodes, pc \in GuestPCs, coproc_num \in CoprocNums :
       \E second \in { CellBase + WordSize, CellBase + 2 * WordSize } :
       \E action \in CompiledActions(opcode, second) :
       \E cells \in [cell1 : Words, following : Words, cell2 : Words] :
          coproc = [ phase |-> "input",
                     inst |-> [opcode |-> opcode, pc |-> pc, coproc_num |-> coproc_num],
                     conf |-> [coprocessors |-> Coprocessors(action)],
                     cells |-> cells,
                     second |-> second,
                     code |-> << >>,
                     defined |-> "none",
                     machine |-> Machine(cells, second) ]

UnchangedAddressSpace ==
    UNCHANGED << block_entries, reverse_block_entries, block_infos, block_references,
                 code_ptr, mem, do_not_fastmem, protection, multi_block, last,
                 compiling, call >>

\* The emitter lowers the instruction.
EmitIRCall ==
    /\ coproc.phase = "input"
    /\ \E ctx \in { EmitIR(EmitContext(coproc.conf), coproc.inst) } :
          coproc' = [coproc EXCEPT !.phase = "emitted",
                                   !.code = ctx.code,
                                   !.defined = ctx.defined]
    /\ UnchangedAddressSpace

\* The host runs the emitted code, when it is loads and stores of cells (a
\* callback or the exception helper leaves the emitted code).
RunEmittedCode ==
    /\ coproc.phase = "emitted"
    /\ \A k \in 1..Len(coproc.code) : coproc.code[k].op \notin {"BLR", "reloc"}
    /\ \E m \in { Run(coproc.machine, coproc.code) } :
          coproc' = [coproc EXCEPT !.phase = "executed", !.machine = m]
    /\ UnchangedAddressSpace

NextCoproc ==
    \/ EmitIRCall
    \/ RunEmittedCode

SpecCoproc == InitCoproc /\ [][NextCoproc]_vars

(***************************************************************************)
(* Compile, statement by statement                                         *)
(***************************************************************************)
\* What guest memory can hold during one Compile call, the third program of
\* the rewritten locations included.
CompileGenerators ==
    { gen \in [LocationDescriptors -> 1..(NumPrograms + 1)] :
        \A d \in LocationDescriptors : d % 3 # 1 => gen[d] = 1 }

\* The state with the locals of the Compile call in progress.
CompilingState ==
    [State EXCEPT !.next = compiling.next,
                  !.queued = compiling.queued,
                  !.emitted = compiling.emitted,
                  !.cleared = compiling.cleared,
                  !.unprotected = TRUE]

\* The members become those of s; the locals of the call are kept in
\* compiling.
CompileContinues(s, descriptor, gen, starting_position, phase) ==
    /\ s.failed = "none"
    /\ block_entries' = s.block_entries
    /\ reverse_block_entries' = s.reverse_block_entries
    /\ block_infos' = s.block_infos
    /\ block_references' = s.block_references
    /\ code_ptr' = s.code_ptr
    /\ mem' = s.mem
    /\ do_not_fastmem' = s.do_not_fastmem
    /\ protection' = s.protection
    /\ multi_block' = s.multi_block
    /\ coproc' = coproc
    /\ call' = call
    /\ compiling' = [ phase |-> phase,
                      descriptor |-> descriptor,
                      gen |-> gen,
                      starting_position |-> starting_position,
                      next |-> s.next,
                      queued |-> s.queued,
                      emitted |-> s.emitted,
                      cleared |-> s.cleared ]

\* GetOrEmit misses and Compile runs up to the return of its first do_block.
CompileBegins ==
    /\ compiling.phase # "running"
    /\ \E descriptor \in LocationDescriptors \ Keys(block_entries) :
       \E gen \in CompileGenerators :
       \E from \in { IF IsNearlyFull(State) THEN ClearCache(State) ELSE State } :
       \E s \in { CompileFirst(from, descriptor, gen) } :
          /\ CompileContinues(s, descriptor, gen, from.code_ptr, "running")
          /\ last' = last

\* One iteration of the worklist loop.
CompileIterates ==
    /\ compiling.phase = "running"
    /\ multi_block /\ compiling.next # << >> /\ ~IsNearlyFull(State)
    /\ \E s \in { CompileIteration(CompilingState, compiling.gen) } :
          /\ CompileContinues(s, compiling.descriptor, compiling.gen,
                              compiling.starting_position, "running")
          /\ last' = last

\* The loop is over (or is not entered): flush, protect, return.
CompileReturns ==
    /\ compiling.phase = "running"
    /\ ~(multi_block /\ compiling.next # << >> /\ ~IsNearlyFull(State))
    /\ \E s \in { CompileEnd(CompilingState, compiling.starting_position) } :
          /\ CompileContinues(s, compiling.descriptor, compiling.gen,
                              compiling.starting_position, "returned")
          /\ last' = [op |-> "GetOrEmit", descriptor |-> compiling.descriptor,
                      result |-> s.result, cleared |-> s.cleared]

\* The other calls come between two Compile calls.
InvalidatesBetweenCompiles ==
    /\ compiling.phase # "running"
    /\ InvalidateBasicBlocksCall

ClearsBetweenCompiles ==
    /\ compiling.phase # "running"
    /\ ClearCacheCall

NextCompile ==
    \/ CompileBegins
    \/ CompileIterates
    \/ CompileReturns
    \/ InvalidatesBetweenCompiles
    \/ ClearsBetweenCompiles

\* What a statement of Compile can change: the members and the locals.
CompileVars(s) ==
    << s.block_entries, s.reverse_block_entries, s.block_infos, s.block_references,
       s.code_ptr, s.mem, s.do_not_fastmem, s.protection, s.multi_block,
       s.next, s.queued, s.emitted, s.cleared >>

\* ENABLED <<CompileIterates>>_vars, written out: the loop condition holds and
\* the iteration neither aborts nor leaves everything as it was.
CompileIteratesEnabled ==
    /\ compiling.phase = "running"
    /\ multi_block /\ compiling.next # << >> /\ ~IsNearlyFull(State)
    /\ \E s \in { CompileIteration(CompilingState, compiling.gen) } :
          /\ s.failed = "none"
          /\ CompileVars(s) # CompileVars(CompilingState)

\* The thread that runs Compile goes on running it: weak fairness of the
\* return and of the iteration, the latter with its enabling condition
\* written out.
SpecCompile ==
    /\ Init /\ [][NextCompile]_vars
    /\ WF_vars(CompileReturns)
    /\ (<>[]CompileIteratesEnabled => []<><<CompileIterates>>_vars)

(***************************************************************************)
(* LinkBlockLinks, called on its own                                       *)
(***************************************************************************)
\* The two relocation types, and a value of the enumeration's underlying
\* type that is neither.
BlockRelocationTypes == { "Branch", "MoveToScratch1", "Neither" }

\* Offsets of slots in a block: two words apart, so that no two slots overlap.
SlotOffsets == { 2 * InsnSize * k : k \in 0..2 }

\* Lists of at most two slots at different offsets.
BlockRelocationLists ==
    { << >> }
        \cup { << [ptr_offset |-> o, type |-> t] >> :
                 o \in SlotOffsets, t \in BlockRelocationTypes }
        \cup { list \in
                 { << [ptr_offset |-> o1, type |-> t1], [ptr_offset |-> o2, type |-> t2] >> :
                     o1 \in SlotOffsets, o2 \in SlotOffsets,
                     t1 \in BlockRelocationTypes, t2 \in BlockRelocationTypes } :
                 list[1].ptr_offset # list[2].ptr_offset }

\* Targets: none, the next block of the page, a block of the next page.
TargetPtrs == { nullptr, end_of_prelude + MaxBlockSize, MemBase + PageSize + 2 * MaxBlockSize }

\* The members of a new AddressSpace; no public call is made.
InitStatic ==
    /\ block_entries = EmptyMap
    /\ reverse_block_entries = EmptyMap
    /\ block_infos = EmptyMap
    /\ block_references = EmptyMap
    /\ code_ptr = end_of_prelude
    /\ mem = [a \in ArenaWords |-> UNWRITTEN]
    /\ do_not_fastmem = {}
    /\ protection = "Execute"
    /\ multi_block = FALSE
    /\ last = [op |-> "Init", descriptor |-> 0, result |-> nullptr, cleared |-> FALSE]
    /\ coproc = CoprocIdle
    /\ compiling = CompileIdle

InitLinkBlockLinks ==
    /\ InitStatic
    /\ call \in [ phase : {"called"},
                   entry_point : {end_of_prelude},
                   target_ptr : TargetPtrs,
                   block_relocations_list : BlockRelocationLists,
                   failed : {"none"} ]

\* The call runs: the arena holds what it stored, call what became of it.
LinkBlockLinksCall ==
    /\ call.phase = "called"
    /\ \E s \in { LinkBlockLinks(State, call.entry_point, call.target_ptr,
                                  call.block_relocations_list,
                                  return_to_dispatcher) } :
          /\ mem' = s.mem
          /\ call' = [call EXCEPT !.phase = "returned", !.failed = s.failed]
    /\ UNCHANGED << block_entries, reverse_block_entries, block_infos, block_references,
                    code_ptr, do_not_fastmem, protection, multi_block, last, coproc,
                    compiling >>

SpecLinkBlockLinks == InitLinkBlockLinks /\ [][LinkBlockLinksCall]_vars

(***************************************************************************)
(* AppendNextBlocksToList, called on its own                               *)
(***************************************************************************)
\* The terminals without a sub-terminal.
LeafTerminals ==
    { Invalid, ReturnToDispatch, PopRSBHint, FastDispatchHint }
        \cup { LinkBlock(d) : d \in LocationDescriptors }
        \cup { LinkBlockFast(d) : d \in LocationDescriptors }

\* One level of If, CheckBit and CheckHalt over the given terminals.
Branching(terminals) ==
    { If(t, e) : t \in terminals, e \in terminals }
        \cup { CheckBit(t, e) : t \in terminals, e \in terminals }
        \cup { CheckHalt(e) : e \in terminals }

\* Terminals of up to two levels of branching; the inner level is over the
\* leaves that abort, queue nothing and queue a successor.
Terminals ==
    LeafTerminals
        \cup Branching(LeafTerminals
                         \cup Branching({ Invalid, ReturnToDispatch }
                                            \cup { LinkBlock(d) : d \in LocationDescriptors }))

InitAppendNextBlocksToList ==
    /\ InitStatic
    /\ call \in [ phase : {"called"},
                   terminal : Terminals,
                   initial : { << >>, << MaxDescriptor >> },
                   next : { << >> },
                   failed : { FALSE } ]

\* The call runs on the list it was given.
AppendNextBlocksToListCall ==
    /\ call.phase = "called"
    /\ \E acc \in { AppendNextBlocksToList([next |-> call.initial, failed |-> FALSE],
                                            call.terminal) } :
          call' = [call EXCEPT !.phase = "returned", !.next = acc.next,
                               !.failed = acc.failed]
    /\ UNCHANGED << block_entries, reverse_block_entries, block_infos, block_references,
                    code_ptr, mem, do_not_fastmem, protection, multi_block, last, coproc,
                    compiling >>

SpecAppendNextBlocksToList ==
    InitAppendNextBlocksToList /\ [][AppendNextBlocksToListCall]_vars

(***************************************************************************)
(* Vocabulary of the properties                                            *)
(***************************************************************************)
\* Host addresses a lookup can be asked about: the dispatcher's entry in the
\* prelude and every byte of the part of the arena blocks can occupy.
HostAddresses ==
    {return_to_dispatcher}
        \cup ((end_of_prelude - 1)..(end_of_prelude + InsnSize * HeadroomWords + MaxBlockSize))

\* Fault addresses: instruction words.
FaultAddresses == ArenaWords \cup {return_to_dispatcher}

\* Where control goes from the slot r of the block at entry, read from the
\* arena's words: the branch target, or the dispatcher when the branch slot
\* is a no-op (it falls through to the return to the dispatcher); for a
\* MoveToScratch1 slot the address its two words materialise. -1: the words
\* are not those of a patched slot.
SlotDestination(s, entry, r) ==
    LET at == entry + r.ptr_offset
    IN  IF r.type = "Branch"
            THEN CASE s.mem[at].op = "B" -> s.mem[at].arg
                   [] s.mem[at].op = "NOP" -> return_to_dispatcher
                   [] OTHER -> -1
            ELSE IF s.mem[at].op = "ADRP" /\ s.mem[at + InsnSize].op = "ADD"
                    THEN AdrlValue(s.mem[at], s.mem[at + InsnSize])
                    ELSE -1

\* The slots for target descriptor D, each as << entry of its block,
\* relocation >>, over every block recorded in block_infos.
SlotsFor(s, D) ==
    UNION { { << Q, s.block_infos[Q].block_relocations[D][k] >> :
                k \in 1..Len(s.block_infos[Q].block_relocations[D]) } :
            Q \in { Q \in Keys(s.block_infos) :
                      D \in Keys(s.block_infos[Q].block_relocations) } }

AllSlots(s) == UNION { SlotsFor(s, D) : D \in LocationDescriptors }

\* Entry points recorded for L that are no longer L's entry: blocks of L that
\* were invalidated since the last ClearCache.
StaleEntries(s, L) ==
    { P \in Keys(s.reverse_block_entries) : s.reverse_block_entries[P] = L /\ Get(s, L) # P }

(***************************************************************************)
(* C1. In every state reached by GetOrEmit, InvalidateBasicBlocks,         *)
(* ClearCache (and FastmemCallback), every entry (L -> P) of block_entries *)
(* has reverse_block_entries[P] = L and a block_infos entry for P whose    *)
(* entry_point is P.                                                       *)
(***************************************************************************)
C1_EntriesHaveReverseAndInfo ==
    \A L \in Keys(block_entries) :
        LET P == block_entries[L]
        IN  /\ P \in Keys(reverse_block_entries)
            /\ reverse_block_entries[P] = L
            /\ P \in Keys(block_infos)
            /\ block_infos[P].entry_point = P

\* Two resident descriptors, one of them re-emitted after an invalidation.
C1_Witness ==
    /\ Cardinality(Keys(block_entries)) >= 2
    /\ \E L \in Keys(block_entries) : StaleEntries(State, L) # {}

(***************************************************************************)
(* C2. While L is resident at P, GetOrEmit(L) returns P and leaves L at P, *)
(* and L stays at P across every call that is neither an                   *)
(* InvalidateBasicBlocks whose set contains L (also the one FastmemCallback*)
(* makes) nor a ClearCache (also the one GetOrEmit makes when the arena is *)
(* nearly full): so every later Get(L) and GetOrEmit(L) returns P.         *)
(***************************************************************************)
C2_ResidentEntryIsStable ==
    \A L \in Keys(block_entries) :
        LET P == block_entries[L]
        IN  /\ P # nullptr
            /\ \A gen \in Generators :
                  \A r \in { GetOrEmit(State, L, gen) } :
                      r.failed = "none" /\ r.result = P /\ Get(r, L) = P
            /\ \A d \in LocationDescriptors \ {L} : \A gen \in Generators :
                  \A r \in { GetOrEmit(State, d, gen) } :
                      (r.failed = "none" /\ ~r.cleared) => Get(r, L) = P
            /\ \A descriptors \in SUBSET (LocationDescriptors \ {L}) :
                  Get(InvalidateBasicBlocks(State, descriptors), L) = P
            /\ \A host_pc \in FaultAddresses :
                  \A r \in { FastmemCallback(State, host_pc) } :
                      (r.failed = "none" /\ L \notin r.invalidated) => Get(r, L) = P

\* GetOrEmit(L) has just returned the entry of a block that was emitted by an
\* earlier call: a block of another descriptor lies after it (single-block
\* compilation emits one block per call).
C2_Witness ==
    /\ ~multi_block
    /\ last.op = "GetOrEmit"
    /\ last.result = Get(State, last.descriptor)
    /\ \E Q \in Keys(block_entries) : block_entries[Q] > last.result

(***************************************************************************)
(* C3. InvalidateBasicBlocks of a set containing a resident L, whose entry *)
(* was P: every slot of every recorded block (L's own block included) that *)
(* targeted P routes through the dispatcher afterwards, and no slot        *)
(* targets P.                                                              *)
(***************************************************************************)
C3_InvalidateUnlinksEverySlot ==
    \A L \in Keys(block_entries) :
    \A descriptors \in { D \in SUBSET LocationDescriptors : L \in D } :
        LET P == block_entries[L]
            r == InvalidateBasicBlocks(State, descriptors)
        IN  /\ r.failed = "none"
            /\ \A slot \in AllSlots(r) :
                  /\ SlotDestination(r, slot[1], slot[2]) # P
                  /\ (slot \in AllSlots(State) /\ SlotDestination(State, slot[1], slot[2]) = P)
                        => SlotDestination(r, slot[1], slot[2]) = return_to_dispatcher

\* After an invalidation: an invalidated, non-resident L whose own block has
\* slots for L, a second block with slots for L, and slots of both types
\* among them, all routed through the dispatcher.
C3_Witness ==
    /\ last.op = "InvalidateBasicBlocks"
    /\ \E L \in LocationDescriptors \ Keys(block_entries) :
          /\ \E P \in StaleEntries(State, L) : L \in Keys(block_infos[P].block_relocations)
          /\ \E P \in Keys(block_infos) :
                reverse_block_entries[P] # L /\ L \in Keys(block_infos[P].block_relocations)
          /\ \A slot \in SlotsFor(State, L) :
                SlotDestination(State, slot[1], slot[2]) = return_to_dispatcher
    /\ \E L \in LocationDescriptors \ Keys(block_entries) :
          \E slot \in SlotsFor(State, L) : slot[2].type = "MoveToScratch1"

(***************************************************************************)
(* C4. L was emitted, invalidated and emitted again with no ClearCache in  *)
(* between (L is resident and a stale entry of L is still recorded): every *)
(* slot for L, in every block still recorded, targets L's new entry point, *)
(* not the old entry point and not the dispatcher.                         *)
(***************************************************************************)
C4_ReemissionRelinksEverySlot ==
    \A L \in Keys(block_entries) :
        StaleEntries(State, L) # {} =>
            \A slot \in SlotsFor(State, L) :
                /\ SlotDestination(State, slot[1], slot[2]) = block_entries[L]
                /\ SlotDestination(State, slot[1], slot[2]) \notin StaleEntries(State, L)
                /\ SlotDestination(State, slot[1], slot[2]) # return_to_dispatcher

\* GetOrEmit(L) has just re-emitted L; L's stale block has slots for L, and so
\* has a block of another descriptor that was emitted before the re-emission.
C4_Witness ==
    /\ last.op = "GetOrEmit"
    /\ last.descriptor \in Keys(block_entries)
    /\ last.result = block_entries[last.descriptor]
    /\ \E P0 \in StaleEntries(State, last.descriptor) :
          << P0, BlockRelocation(InsnSize * 2, "Branch") >> \in SlotsFor(State, last.descriptor)
    /\ \E slot \in SlotsFor(State, last.descriptor) :
          /\ reverse_block_entries[slot[1]] # last.descriptor
          /\ slot[1] < last.result

(***************************************************************************)
(* C5. For every live block B (the entry of a descriptor present in        *)
(* block_entries) and every key D of B's block_relocations, B's entry      *)
(* point is a member of block_references[D].                               *)
(***************************************************************************)
C5_LiveBlocksAreReferenced ==
    \A L \in Keys(block_entries) :
        LET entry == block_entries[L]
        IN  entry \in Keys(block_infos) =>
                \A D \in Keys(block_infos[entry].block_relocations) :
                    D \in Keys(block_references) /\ entry \in block_references[D]

\* A live block with slots for two descriptors, after a ClearCache inside
\* GetOrEmit emptied block_references.
C5_Witness ==
    /\ last.op = "GetOrEmit"
    /\ last.cleared
    /\ \E L \in Keys(block_entries) :
          Cardinality(Keys(block_infos[block_entries[L]].block_relocations)) >= 2

(***************************************************************************)
(* C6. After ClearCache: Get(L) is null for every L, the four maps are     *)
(* empty, the write cursor is end_of_prelude and the do-not-fastmem markers*)
(* are those of before the call; a following GetOrEmit(L) compiles L anew  *)
(* (it emits L at end_of_prelude) and returns that block.                  *)
(***************************************************************************)
C6_ClearCacheResets ==
    \A r \in { ClearCache(State) } :
        /\ r.failed = "none"
        /\ \A L \in LocationDescriptors : Get(r, L) = nullptr
        /\ Keys(r.block_entries) = {}
        /\ Keys(r.reverse_block_entries) = {}
        /\ Keys(r.block_infos) = {}
        /\ Keys(r.block_references) = {}
        /\ r.code_ptr = end_of_prelude
        /\ r.do_not_fastmem = do_not_fastmem
        /\ \A L \in LocationDescriptors : \A gen \in Generators :
              \A g \in { GetOrEmit([r EXCEPT !.cleared = FALSE], L, gen) } :
                  /\ g.failed = "none"
                  /\ g.emitted # << >> /\ Head(g.emitted) = L
                  /\ g.result = end_of_prelude
                  /\ Get(g, L) = g.result
                  /\ ~g.cleared

\* The state after a ClearCache call that kept a marker.
C6_Witness ==
    /\ last.op = "ClearCache"
    /\ do_not_fastmem # {}
    /\ Keys(block_entries) = {} /\ Keys(block_infos) = {}
    /\ code_ptr = end_of_prelude

(***************************************************************************)
(* C7. GetOrEmit(L) for a non-resident L with less than 1 MiB of arena     *)
(* left runs ClearCache and then compiles L: it returns a non-null entry   *)
(* and Get(L) is that entry. For a resident L it returns the existing      *)
(* entry and clears nothing, however full the arena is. With exactly 1 MiB *)
(* left it does not clear.                                                 *)
(***************************************************************************)
C7_NearlyFullClearsOnMiss ==
    \A L \in LocationDescriptors : \A gen \in Generators :
        \A r \in { GetOrEmit(State, L, gen) } :
            /\ r.failed = "none"
            /\ (Get(State, L) = nullptr /\ GetRemainingSize(State) < 1024 * 1024) =>
                    /\ r.cleared
                    /\ r.result # nullptr
                    /\ Get(r, L) = r.result
                    /\ r.result = end_of_prelude
                    /\ Keys(r.reverse_block_entries) \cap Keys(reverse_block_entries)
                          \subseteq { Q \in Keys(r.block_infos) : Q < r.code_ptr }
                    /\ \A d \in Keys(r.block_entries) :
                          \E k \in 1..Len(r.emitted) : r.emitted[k] = d
            /\ Get(State, L) # nullptr =>
                    /\ ~r.cleared
                    /\ r.result = block_entries[L]
                    /\ r.block_entries = block_entries
                    /\ r.block_infos = block_infos
                    /\ r.code_ptr = code_ptr
                    /\ r.emitted = << >>
            /\ (Get(State, L) = nullptr /\ GetRemainingSize(State) = 1024 * 1024) =>
                    /\ ~r.cleared
                    /\ r.code_ptr > code_ptr
                    /\ \A d \in Keys(block_entries) : Get(r, d) = block_entries[d]

\* GetOrEmit has just cleared the cache and compiled its descriptor.
C7_Witness ==
    /\ last.op = "GetOrEmit"
    /\ last.cleared
    /\ last.result = end_of_prelude
    /\ Get(State, last.descriptor) = last.result

\* The descriptors do_block pushes on the worklist for one block.
QueuedSuccessors(descriptor, gen) ==
    LET appended == AppendNextBlocksToList([next |-> << >>, failed |-> FALSE],
                                           GenerateIR(descriptor, gen).terminal)
    IN  { appended.next[k] : k \in 1..Len(appended.next) }

\* reached, closed under the successors the call queues: the worklist loop
\* calls do_block, which queues successors, for L0 and for descriptors that
\* are not resident when the compilation starts (state base); a descriptor
\* already resident is popped and skipped.
RECURSIVE ReachableThroughQueued(_, _, _, _)
ReachableThroughQueued(base, L0, reached, gen) ==
    LET compiled == { d \in reached : d = L0 \/ Get(base, d) = nullptr }
        more == reached \cup UNION { QueuedSuccessors(d, gen) : d \in compiled }
    IN  IF more = reached THEN reached ELSE ReachableThroughQueued(base, L0, more, gen)

(***************************************************************************)
(* C8. With MultiBlockCompilation enabled, after a GetOrEmit(L0) miss that *)
(* leaves the arena not nearly full: every descriptor reachable from L0    *)
(* through the successors the call queued from the terminals of the blocks *)
(* it compiled is resident, and every block_relocations slot of those      *)
(* blocks whose target descriptor is resident targets the target's entry   *)
(* point directly, not the dispatcher.                                     *)
(***************************************************************************)
C8_MultiBlockCompilesAndLinksSuccessors ==
    multi_block =>
        \A L0 \in LocationDescriptors : \A gen \in Generators :
            Get(State, L0) = nullptr =>
                \A r \in { GetOrEmit(State, L0, gen) } :
                \A reachable \in { ReachableThroughQueued(
                                        IF IsNearlyFull(State) THEN ClearCache(State) ELSE State,
                                        L0, {L0}, gen) } :
                    /\ r.failed = "none"
                    /\ ~IsNearlyFull(r) =>
                          /\ reachable = {L0} \cup { r.queued[k] : k \in 1..Len(r.queued) }
                          /\ \A d \in reachable :
                                /\ Get(r, d) # nullptr
                                /\ Get(r, d) \in Keys(r.block_infos)
                                /\ \A D \in Keys(r.block_infos[Get(r, d)].block_relocations) :
                                      Get(r, D) # nullptr =>
                                          \A slot \in SlotsFor(r, D) :
                                              slot[1] = Get(r, d) =>
                                                  /\ SlotDestination(r, slot[1], slot[2]) = Get(r, D)
                                                  /\ SlotDestination(r, slot[1], slot[2]) # return_to_dispatcher

\* GetOrEmit(1) on an empty cache compiled 1 and its two successors in one
\* call; the two conditional slots of block 1 go to blocks 2 and 3.
C8_Witness ==
    /\ multi_block
    /\ last.op = "GetOrEmit" /\ last.descriptor = 1
    /\ last.result = end_of_prelude
    /\ ~IsNearlyFull(State)
    /\ Keys(block_entries) = {1, 2, 3}
    /\ Cardinality(Keys(block_infos)) = 3
    /\ block_entries[1] = end_of_prelude
    /\ Keys(block_infos[end_of_prelude].block_relocations) = {2, 3}
    /\ \A D \in {2, 3} : \E slot \in SlotsFor(State, D) :
          /\ slot[1] = end_of_prelude
          /\ SlotDestination(State, slot[1], slot[2]) = block_entries[D]

\* The recorded entry points at or below host_pc.
RecordedAtOrBelow(s, host_pc) == { Q \in Keys(s.reverse_block_entries) : Q <= host_pc }

\* Those of them that are the entry of a descriptor present in block_entries.
LiveAtOrBelow(s, host_pc) ==
    { Q \in RecordedAtOrBelow(s, host_pc) :
        \E L \in Keys(s.block_entries) : s.block_entries[L] = Q }

(***************************************************************************)
(* C9, as stated. For every host address P, ReverseGetEntryPoint(P) is     *)
(* null or the greatest recorded entry point <= P, and it is null if and   *)
(* only if no live block (descriptor present in block_entries) has an      *)
(* entry point at or below P.                                              *)
(***************************************************************************)
C9_NullIffNoLiveBlock ==
    \A P \in HostAddresses :
        \A r \in { ReverseGetEntryPoint(State, P) } :
            /\ r = nullptr \/ r = SetMax(RecordedAtOrBelow(State, P))
            /\ r = nullptr <=> LiveAtOrBelow(State, P) = {}

(***************************************************************************)
(* C9, amended. For every host address P, ReverseGetEntryPoint(P) is null  *)
(* if and only if no recorded entry point (a key of reverse_block_entries, *)
(* whether its descriptor is still in block_entries or was invalidated     *)
(* since the last ClearCache) is at or below P; otherwise it is the        *)
(* greatest recorded entry point <= P.                                     *)
(***************************************************************************)
C9_NullIffNoRecordedBlock ==
    \A P \in HostAddresses :
        \A r \in { ReverseGetEntryPoint(State, P) } :
            /\ r = nullptr <=> RecordedAtOrBelow(State, P) = {}
            /\ r # nullptr =>
                  /\ r <= P
                  /\ r \in Keys(reverse_block_entries)
                  /\ \A Q \in RecordedAtOrBelow(State, P) : Q <= r

\* After InvalidateBasicBlocks no live block is at or below an address inside
\* an invalidated block, a second recorded block lies above it, and the
\* lookup still answers the invalidated block's entry point.
C9_Witness ==
    /\ last.op = "InvalidateBasicBlocks"
    /\ \E P0 \in Keys(reverse_block_entries) :
          /\ LiveAtOrBelow(State, P0 + InsnSize) = {}
          /\ \E Q \in Keys(reverse_block_entries) : Q > P0 + InsnSize
          /\ ReverseGetEntryPoint(State, P0 + InsnSize) = P0
          /\ ReverseGetEntryPoint(State, P0 - 1) = nullptr

(***************************************************************************)
(* C10. For every block B recorded since the last ClearCache (its          *)
(* descriptor invalidated since or not) and every offset that is a key of  *)
(* B.fastmem_patch_info, FastmemCallback(entry(B) + offset) returns the    *)
(* fake_call recorded for that offset.                                     *)
(***************************************************************************)
C10_FastmemCallbackReturnsRecordedFakeCall ==
    \A entry \in Keys(block_infos) :
        \A offset \in Keys(block_infos[entry].fastmem_patch_info) :
            \A r \in { FastmemCallback(State, entry + offset) } :
                /\ r.failed = "none"
                /\ r.result = block_infos[entry].fastmem_patch_info[offset].fc.call_pc

\* FastmemCallback has just answered a fault inside a block whose descriptor
\* is no longer in block_entries, with another block recorded below it.
C10_Witness ==
    /\ last.op = "FastmemCallback"
    /\ \E entry \in Keys(block_infos) :
          /\ Get(State, reverse_block_entries[entry]) # entry
          /\ \E Q \in Keys(block_infos) : Q < entry
          /\ \E offset \in Keys(block_infos[entry].fastmem_patch_info) :
                /\ last.result = block_infos[entry].fastmem_patch_info[offset].fc.call_pc
                /\ FastmemCallback(State, entry + offset).result = last.result

(***************************************************************************)
(* C11. FastmemCallback at a patch site whose recompile flag is set adds   *)
(* the site's marker to the do-not-fastmem set and leaves the marker's     *)
(* descriptor non-resident, so that the next GetOrEmit of it compiles a    *)
(* new block, which the emitter produces with the slow path at the site    *)
(* (no patch site, a ReadMemory32 relocation). At a patch site whose       *)
(* recompile flag is clear it changes neither the marker set nor any cache *)
(* map nor any word of the arena.                                          *)
(***************************************************************************)
C11_RecompileMarksAndInvalidates ==
    \A entry \in Keys(block_infos) :
        \A offset \in Keys(block_infos[entry].fastmem_patch_info) :
            \A site \in { block_infos[entry].fastmem_patch_info[offset] } :
            \A r \in { FastmemCallback(State, entry + offset) } :
                /\ r.failed = "none"
                /\ site.recompile =>
                      /\ site.marker \in r.do_not_fastmem
                      /\ r.do_not_fastmem = do_not_fastmem \cup {site.marker}
                      /\ Get(r, site.marker[1]) = nullptr
                      /\ \A gen \in Generators :
                            \A g \in { GetOrEmit([r EXCEPT !.emitted = << >>],
                                                 site.marker[1], gen) } :
                                /\ g.failed = "none"
                                /\ g.emitted # << >> /\ Head(g.emitted) = site.marker[1]
                                /\ Get(g, site.marker[1]) = g.result
                                /\ g.result # entry \/ g.cleared
                                /\ Keys(g.block_infos[g.result].fastmem_patch_info) = {}
                                /\ \E k \in 1..Len(g.block_infos[g.result].relocations) :
                                      g.block_infos[g.result].relocations[k].target = "ReadMemory32"
                /\ ~site.recompile =>
                      /\ r.do_not_fastmem = do_not_fastmem
                      /\ r.block_entries = block_entries
                      /\ r.reverse_block_entries = reverse_block_entries
                      /\ r.block_infos = block_infos
                      /\ r.block_references = block_references
                      /\ r.mem = mem
                      /\ r.code_ptr = code_ptr

\* FastmemCallback has just answered a fault at a recompile site: the marker
\* is set and the block's descriptor, resident before the fault, is not any
\* more, while a block that linked to it is still recorded.
C11_Witness ==
    /\ last.op = "FastmemCallback"
    /\ \E entry \in Keys(block_infos) :
          \E offset \in Keys(block_infos[entry].fastmem_patch_info) :
              /\ block_infos[entry].fastmem_patch_info[offset].recompile
              /\ block_infos[entry].fastmem_patch_info[offset].fc.call_pc = last.result
              /\ block_infos[entry].fastmem_patch_info[offset].marker \in do_not_fastmem
              /\ Get(State, reverse_block_entries[entry]) = nullptr
              /\ SlotsFor(State, reverse_block_entries[entry]) # {}

(***************************************************************************)
(* C12, as stated. While any emitted block is executing, including a block *)
(* suspended inside the fault handler while FastmemCallback runs on its    *)
(* behalf, the arena's protection is Execute and never Write: no           *)
(* unprotect() happens between a block starting to execute and finishing.  *)
(* Blocks execute between the calls of the cache's operations, and a block *)
(* is suspended at each recorded patch site during FastmemCallback there.  *)
(***************************************************************************)
C12_NoUnprotectWhileBlockSuspended ==
    /\ protection = "Execute"
    /\ \A entry \in Keys(block_infos) :
          \A offset \in Keys(block_infos[entry].fastmem_patch_info) :
              \A r \in { FastmemCallback(State, entry + offset) } :
                  r.failed = "none" => ~r.unprotected /\ r.protection = "Execute"

(***************************************************************************)
(* C12, amended. Whenever control is in emitted code (between the calls of *)
(* the cache's operations, and when a FastmemCallback returns to the       *)
(* suspended block) the arena's protection is Execute: every operation     *)
(* that calls unprotect() calls protect() before it returns. During        *)
(* FastmemCallback on behalf of a suspended block the arena is made        *)
(* writable exactly when the patch site's recompile flag is set (by the    *)
(* InvalidateBasicBlocks it then calls), and never when it is clear.       *)
(***************************************************************************)
C12_ExecuteWheneverControlIsInBlocks ==
    /\ protection = "Execute"
    /\ \A L \in LocationDescriptors : \A gen \in Generators :
          \A r \in { GetOrEmit(State, L, gen) } :
              r.failed = "none" =>
                  /\ r.protection = "Execute"
                  /\ r.unprotected <=> Get(State, L) = nullptr
    /\ \A descriptors \in SUBSET LocationDescriptors :
          \A r \in { InvalidateBasicBlocks(State, descriptors) } :
              r.protection = "Execute" /\ r.unprotected
    /\ \A r \in { ClearCache(State) } : r.protection = "Execute" /\ ~r.unprotected
    /\ \A entry \in Keys(block_infos) :
          \A offset \in Keys(block_infos[entry].fastmem_patch_info) :
              \A r \in { FastmemCallback(State, entry + offset) } :
                  /\ r.failed = "none"
                  /\ r.protection = "Execute"
                  /\ r.unprotected <=> block_infos[entry].fastmem_patch_info[offset].recompile

\* FastmemCallback has just returned to a block suspended at a recompile
\* site: the arena is executable again, and the block it resumes is no longer
\* the entry of its descriptor.
C12_Witness ==
    /\ last.op = "FastmemCallback"
    /\ protection = "Execute"
    /\ \E entry \in Keys(block_infos) :
          \E offset \in Keys(block_infos[entry].fastmem_patch_info) :
              /\ block_infos[entry].fastmem_patch_info[offset].recompile
              /\ block_infos[entry].fastmem_patch_info[offset].fc.call_pc = last.result
              /\ reverse_block_entries[entry] \notin Keys(block_entries)
              /\ FastmemCallback(State, entry + offset).unprotected

\* The bytes of the block recorded at entry.
BlockRange(s, entry) == entry..(entry + s.block_infos[entry].size - 1)

(***************************************************************************)
(* C13. For any two distinct live blocks the byte ranges                   *)
(* [entry_point, entry_point + size) are disjoint, in every reachable      *)
(* state (also after re-emission of an invalidated descriptor and after a  *)
(* cache reset). The same holds of any two blocks recorded since the last  *)
(* ClearCache, and all of them lie between end_of_prelude and the cursor.  *)
(***************************************************************************)
C13_LiveBlocksAreDisjoint ==
    /\ \A L1 \in Keys(block_entries) : \A L2 \in Keys(block_entries) \ {L1} :
          /\ block_entries[L1] # block_entries[L2]
          /\ BlockRange(State, block_entries[L1]) \cap BlockRange(State, block_entries[L2]) = {}
    /\ \A P1 \in Keys(block_infos) :
          /\ block_infos[P1].size > 0
          /\ end_of_prelude <= P1 /\ P1 + block_infos[P1].size <= code_ptr
          /\ \A P2 \in Keys(block_infos) \ {P1} :
                BlockRange(State, P1) \cap BlockRange(State, P2) = {}

\* GetOrEmit has just re-emitted an invalidated descriptor whose old block
\* is still recorded: two live blocks and a stale one share the arena, the
\* new block starting where another block ends.
C13_Witness ==
    /\ last.op = "GetOrEmit"
    /\ last.descriptor \in Keys(block_entries)
    /\ StaleEntries(State, last.descriptor) # {}
    /\ Cardinality(Keys(block_entries)) >= 2
    /\ Cardinality(Keys(block_infos)) >= 3
    /\ \E P \in Keys(block_infos) : P + block_infos[P].size = block_entries[last.descriptor]

(***************************************************************************)
(* C14. In every reachable state the write cursor lies within              *)
(* [end_of_prelude, arena base + code_cache_size], so GetRemainingSize     *)
(* never underflows: a block is only started while at least 1 MiB remains  *)
(* (GetOrEmit clears a nearly full cache first, the multi-block loop stops *)
(* when nearly full), and the arena holds the prelude and 1 MiB, a block   *)
(* being smaller than that.                                                *)
(***************************************************************************)
C14_CursorWithinArena ==
    /\ end_of_prelude <= code_ptr
    /\ code_ptr <= MemBase + code_cache_size
    /\ GetRemainingSize(State) >= 0
    /\ GetRemainingSize(State) + MaxBlockSize >= NearlyFullThreshold
    /\ \A L \in LocationDescriptors : \A gen \in Generators :
          \A r \in { GetOrEmit(State, L, gen) } :
              /\ r.failed = "none"
              /\ end_of_prelude <= r.code_ptr
              /\ r.code_ptr <= MemBase + code_cache_size
    /\ \A r \in { ClearCache(State) } : r.code_ptr = end_of_prelude

\* A multi-block GetOrEmit has just stopped with the arena nearly full: the
\* cursor is at its furthest, less than 1 MiB from the arena's end.
C14_Witness ==
    /\ multi_block
    /\ last.op = "GetOrEmit"
    /\ IsNearlyFull(State)
    /\ code_ptr > end_of_prelude + InsnSize * HeadroomWords
    /\ code_ptr <= MemBase + code_cache_size

(***************************************************************************)
(* C15. FastmemCallback(host_pc) ends in a fatal abort, without having     *)
(* marked any site, invalidated any block or modified any cache map,       *)
(* exactly when there is no recorded entry point at or below host_pc or    *)
(* host_pc - entry_point is not a key of that block's fastmem_patch_info;  *)
(* in all other cases it returns the fake call of the site.                *)
(***************************************************************************)
C15_FastmemCallbackAbortsOffPatchSites ==
    \A host_pc \in FaultAddresses :
        \A r \in { FastmemCallback(State, host_pc) } :
        \A entry_point \in { ReverseGetEntryPoint(State, host_pc) } :
            /\ r.failed # "none" <=>
                  \/ RecordedAtOrBelow(State, host_pc) = {}
                  \/ (host_pc - entry_point)
                        \notin Keys(block_infos[entry_point].fastmem_patch_info)
            /\ r.failed # "none" =>
                  /\ r.failed = "segfault"
                  /\ r = [State EXCEPT !.failed = "segfault"]
                  /\ r.do_not_fastmem = do_not_fastmem
                  /\ r.invalidated = {}
                  /\ r.block_entries = block_entries
                  /\ r.mem = mem
            /\ r.failed = "none" =>
                  r.result = block_infos[entry_point]
                                .fastmem_patch_info[host_pc - entry_point].fc.call_pc

\* Three faults in one state: in the prelude, below every recorded block
\* (abort); inside a recorded block one word past its patch site (abort); at
\* the patch site itself (a fake call).
C15_Witness ==
    /\ FastmemCallback(State, return_to_dispatcher).failed = "segfault"
    /\ \E entry \in Keys(block_infos) :
          \E offset \in Keys(block_infos[entry].fastmem_patch_info) :
              /\ offset + InsnSize < block_infos[entry].size
              /\ FastmemCallback(State, entry + offset + InsnSize).failed = "segfault"
              /\ FastmemCallback(State, entry + offset).failed = "none"

\* C16: for each of the seven coprocessor opcodes, when the coprocessor at
\* the instruction's index is absent or its compile method returns the None
\* action, the emitter produces only the exception sequence (the guest PC in
\* W1, InvalidCoprocessorInstruction in W2, the ExceptionRaised relocation),
\* no callback call, load or store, and an opcode that produces a value has
\* its result defined as X0.
C16_NoCoprocessorEmitsOnlyTheException ==
    (/\ coproc.phase = "emitted"
     /\ \/ ~coproc.conf.coprocessors[coproc.inst.coproc_num].present
        \/ coproc.conf.coprocessors[coproc.inst.coproc_num].compiled.kind = "None")
    => /\ Len(coproc.code) = 3
       /\ coproc.code[1] = [op |-> "MOV", rd |-> W1, imm |-> coproc.inst.pc]
       /\ coproc.code[2].op = "MOV"
       /\ coproc.code[2].rd = W2
       /\ coproc.code[2].imm = "InvalidCoprocessorInstruction"
       /\ coproc.code[3] = [op |-> "reloc", target |-> "ExceptionRaised"]
       /\ \A k \in 1..Len(coproc.code) : coproc.code[k].op \notin {"BLR", "LDR", "STR"}
       /\ GetType(coproc.inst.opcode) # "Void" => coproc.defined = X0.r

\* A coprocessor-7 get of two words with no coprocessor 7 configured, and a
\* get from the configured coprocessor whose compile method returned None.
C16_Witness ==
    /\ coproc.phase = "emitted"
    /\ coproc.inst.opcode \in {"A32CoprocGetOneWord", "A32CoprocGetTwoWords"}
    /\ coproc.defined = X0.r
    /\ \/ ~coproc.conf.coprocessors[coproc.inst.coproc_num].present
       \/ /\ coproc.conf.coprocessors[coproc.inst.coproc_num].present
          /\ coproc.conf.coprocessors[coproc.inst.coproc_num].compiled.kind = "None"

\* C17: for A32CoprocGetTwoWords with a two-cell action, the 64-bit result
\* of the emitted load, load, bitfield insert is cell2 * 2^32 + cell1 (bits
\* 0..31 are the first cell's, bits 32..63 the second cell's), for every
\* pair of cell values and whatever the four bytes after the first cell
\* hold, which the 64-bit first load reads; memory is left as it was.
C17_TwoWordsCombineLowAndHigh ==
    (/\ coproc.phase = "executed"
     /\ coproc.inst.opcode = "A32CoprocGetTwoWords")
    => /\ coproc.defined = Xvalue.r
       /\ \A i \in 0..31 :
            /\ coproc.machine.regs[Xvalue.r][i] = WordBits(coproc.cells.cell1)[i]
            /\ coproc.machine.regs[Xvalue.r][32 + i] = WordBits(coproc.cells.cell2)[i]
       /\ coproc.machine.mem = CellsInMemory(coproc.cells, coproc.second)

\* cellA = 0xAAAAAAAA and cellB = 0xBBBBBBBB with 0xFF bytes between them:
\* the first load brought those bytes into the high half, the insert replaced
\* them.
C17_Witness ==
    /\ coproc.phase = "executed"
    /\ coproc.inst.opcode = "A32CoprocGetTwoWords"
    /\ coproc.cells.cell1 = << 170, 170, 170, 170 >>
    /\ coproc.cells.cell2 = << 187, 187, 187, 187 >>
    /\ coproc.cells.following = << 255, 255, 255, 127 >>
    /\ coproc.second = CellBase + 2 * WordSize
    /\ coproc.machine.regs[Xvalue.r][63] = 1
    /\ coproc.machine.regs[Xvalue.r][62] = 0
    /\ coproc.machine.regs[Xvalue.r][0] = 0

\* Every slot that targets the entry point of a recorded block targets the
\* entry its descriptor has in block_entries; s holds block_entries,
\* block_infos and mem.
SlotsTargetResidentEntries(s) ==
    \A D \in LocationDescriptors : \A slot \in SlotsFor(s, D) :
        \A P \in { SlotDestination(s, slot[1], slot[2]) } :
            P \in Keys(s.block_infos) => Get(s, D) = P

\* Every call that can be made in the current state, as the record it
\* returns; the record's trace holds the call's intermediate states.
CallsFromHere ==
    { GetOrEmit(State, d, gen) : d \in LocationDescriptors, gen \in Generators }
        \cup { InvalidateBasicBlocks(State, descriptors) :
                 descriptors \in SUBSET LocationDescriptors }
        \cup { ClearCache(State) }
        \cup { FastmemCallback(State, host_pc) : host_pc \in FaultAddresses }

SlotWords(m, at, words) == [k \in 1..Len(words) |-> m[at + InsnSize * (k - 1)]]

\* The slot was patched before (by Link when its block was emitted, or by
\* an earlier RelinkForDescriptor): it holds a branch, the no-op of an absent
\* target, or an ADRL sequence.
HoldsATarget(slot_words) ==
    \/ Len(slot_words) = 1 /\ slot_words[1].op \in {"B", "NOP"}
    \/ Len(slot_words) = 2 /\ slot_words[1].op = "ADRP" /\ slot_words[2].op = "ADD"

\* C19: while RelinkForDescriptor re-patches a slot, a thread that reads the
\* slot finds either the complete old target or the complete new target,
\* never a mixture, for both slot types: after every store of every re-patch
\* a call makes, the slot holds the words it held before the patch or the
\* words of the patch.
C19_SlotPatchIsOneAtomicWrite ==
    \A r \in CallsFromHere : \A k \in 1..Len(r.stores) :
        \A store \in { r.stores[k] } :
            HoldsATarget(SlotWords(store.before, store.at, store.words))
                => \/ SlotWords(store.mem, store.at, store.words)
                        = SlotWords(store.before, store.at, store.words)
                   \/ SlotWords(store.mem, store.at, store.words) = store.words

\* C20: InvalidateBasicBlocks removes only block_entries entries, those of
\* the resident descriptors of its set: reverse_block_entries, block_infos
\* and the write cursor are unchanged, so for any address inside an
\* invalidated block ReverseGetEntryPoint and ReverseGetLocation still return
\* the block's entry point and descriptor, and go on doing so across every
\* later call that is not (and makes no) ClearCache; descriptors of the set
\* that are not resident change no map and no slot.
C20_InvalidateRemovesOnlyForwardEntries ==
    /\ \A descriptors \in SUBSET LocationDescriptors :
       \A r \in { InvalidateBasicBlocks(State, descriptors) } :
          /\ r.failed = "none"
          /\ r.reverse_block_entries = reverse_block_entries
          /\ r.block_infos = block_infos
          /\ r.code_ptr = code_ptr
          /\ r.block_entries = [d \in Keys(block_entries) \ descriptors |-> block_entries[d]]
          /\ \A L \in descriptors \cap Keys(block_entries) :
             \A host_pc \in BlockRange(State, block_entries[L]) :
                /\ Get(r, L) = nullptr
                /\ ReverseGetEntryPoint(r, host_pc) = block_entries[L]
                /\ ReverseGetLocation(r, host_pc) = L
          /\ \A q \in { InvalidateBasicBlocks(State, descriptors \cap Keys(block_entries)) } :
                /\ r.mem = q.mem
                /\ r.block_references = q.block_references
          /\ descriptors \cap Keys(block_entries) = {} =>
                /\ r.block_entries = block_entries
                /\ r.block_references = block_references
                /\ r.mem = mem
                /\ r.stores = << >>
    /\ \A after \in { [reverse_block_entries |-> r.reverse_block_entries] :
                        r \in { q \in CallsFromHere : q.failed = "none" /\ ~q.cleared } } :
          \A P \in Keys(reverse_block_entries) :
          \A host_pc \in BlockRange(State, P) :
              /\ ReverseGetEntryPoint(after, host_pc) = P
              /\ ReverseGetLocation(after, host_pc) = reverse_block_entries[P]

\* After an invalidation and a later emission: the block of a descriptor that
\* is not resident is still recorded, another block was emitted behind it,
\* and a lookup of its last byte still gives its entry and its descriptor.
C20_Witness ==
    \E L \in LocationDescriptors \ Keys(block_entries) :
    \E P \in Keys(reverse_block_entries) :
        /\ reverse_block_entries[P] = L
        /\ \E Q \in Keys(reverse_block_entries) : Q > P /\ last.op = "GetOrEmit" /\ last.result = Q
        /\ ReverseGetEntryPoint(State, P + block_infos[P].size - 1) = P
        /\ ReverseGetLocation(State, P + block_infos[P].size - 1) = L
        /\ InvalidateBasicBlocks(State, {L}).mem = mem

\* Link has patched the block at entry: each of its relocations holds the
\* branch to its prelude helper, and each of its slots holds a branch, the
\* no-op of an absent target, or an ADRL sequence. s holds block_infos and
\* mem.
LinkHasPatched(s, entry) ==
    /\ \A k \in 1..Len(s.block_infos[entry].relocations) :
          \A r \in { s.block_infos[entry].relocations[k] } :
              s.mem[entry + r.ptr_offset] = LinkTargetInsn(r.target)
    /\ \A D \in Keys(s.block_infos[entry].block_relocations) :
       \A k \in 1..Len(s.block_infos[entry].block_relocations[D]) :
          \A r \in { s.block_infos[entry].block_relocations[D][k] } :
              HoldsATarget(SlotWords(s.mem, entry + r.ptr_offset,
                    IF r.type = "Branch" THEN << NOP >> ELSE << NOP, NOP >>))

\* C21: a newly emitted block B becomes the target of another block's slot
\* only after Link(B) has patched all of B's relocations and slots, and no
\* block can branch into B before the arena is protected again at the end of
\* the Compile call that emitted B: in every intermediate state of a
\* GetOrEmit that has a block recorded at or after the position the call
\* started from, the arena is writable (not executable), a slot of another
\* block targets the new block only if Link has patched the new block, and
\* the call returns with the arena executable.
C21_LinkedBeforeTargetedAndProtectedBeforeRun ==
    \A d \in LocationDescriptors : \A gen \in Generators :
    \A r \in { GetOrEmit(State, d, gen) } :
        /\ r.failed = "none"
        /\ r.protection = "Execute"
        /\ \A k \in 1..Len(r.trace) : \A t \in { r.trace[k] } :
              t.operation # "ClearCache" =>
                \A entry \in { P \in Keys(t.block_infos) :
                                 P >= (IF r.cleared THEN end_of_prelude ELSE code_ptr) } :
                    /\ t.protection = "Write"
                    /\ \A slot \in AllSlots(t) :
                          (slot[1] # entry /\ SlotDestination(t, slot[1], slot[2]) = entry)
                              => LinkHasPatched(t, entry)

\* GetOrEmit has just emitted a block with relocations and slots of its own,
\* and an older block has a slot that targets the new block's entry.
C21_Witness ==
    /\ last.op = "GetOrEmit"
    /\ protection = "Execute"
    /\ last.result \in Keys(block_infos)
    /\ last.result + block_infos[last.result].size = code_ptr
    /\ Len(block_infos[last.result].relocations) > 0
    /\ Keys(block_infos[last.result].block_relocations) # {}
    /\ LinkHasPatched(State, last.result)
    /\ \E slot \in AllSlots(State) :
          slot[1] < last.result /\ SlotDestination(State, slot[1], slot[2]) = last.result

\* C22: whenever protect() is called at the end of Compile or of
\* InvalidateBasicBlocks, every word written or patched since the matching
\* unprotect() has been covered by an invalidate() flush issued after the
\* write (the emitted range [start, cursor) by Compile's flush, each
\* re-patched referencing block by the flush RelinkForDescriptor issues for
\* it): every call that made the arena writable returns with no word left
\* unflushed, and the words a GetOrEmit leaves to Compile's flush all lie in
\* [start, cursor).
C22_EveryWrittenRangeIsFlushed ==
    /\ \A r \in CallsFromHere :
          (r.failed = "none" /\ r.unprotected) => r.dirty = {} /\ r.protection = "Execute"
    /\ \A d \in LocationDescriptors \ Keys(block_entries) : \A gen \in Generators :
       \A start \in { IF IsNearlyFull(State) THEN end_of_prelude ELSE code_ptr } :
       \A first \in { CompileFirst(IF IsNearlyFull(State) THEN ClearCache(State) ELSE State,
                                    d, gen) } :
       \A r \in { IF first.multi_block THEN CompileLoop(first, gen) ELSE first } :
          \A a \in r.dirty : a >= start /\ a < r.code_ptr

\* From here an invalidation re-patches a slot and flushes its block, and a
\* GetOrEmit emits a block and re-patches a slot of a block emitted by an
\* earlier call, outside the range Compile's flush covers.
C22_Witness ==
    /\ \E L \in Keys(block_entries) :
       \A r \in { InvalidateBasicBlocks(State, {L}) } :
          Len(r.stores) > 0 /\ r.dirty = {}
    /\ \E d \in LocationDescriptors \ Keys(block_entries) : \E gen \in Generators :
       \A r \in { GetOrEmit(State, d, gen) } :
          /\ ~r.cleared
          /\ r.dirty = {}
          /\ \E k \in 1..Len(r.stores) : r.stores[k].at < code_ptr

(***************************************************************************)
(* C23. Compile(L) terminates for every finite guest control-flow graph,   *)
(* cycles, self-loops and successors queued more than once included: a     *)
(* Compile call in progress always returns; during the call no descriptor  *)
(* is emitted twice; an iteration whose head of the list is resident pops  *)
(* it and emits nothing; and the call returns with an empty list or a      *)
(* nearly full arena (or in single-block mode, where the loop is not       *)
(* entered). (compiling keeps the locals of the last Compile call until    *)
(* the next one; last.op tells that the call has just returned.)           *)
(***************************************************************************)
C23_CompileTerminates ==
    /\ [](compiling.phase # "idle" =>
            /\ \A i, j \in 1..Len(compiling.emitted) :
                  i # j => compiling.emitted[i] # compiling.emitted[j]
            /\ (compiling.phase = "returned" /\ last.op = "GetOrEmit") =>
                  \/ ~multi_block
                  \/ compiling.next = << >>
                  \/ IsNearlyFull(State))
    /\ [][(/\ compiling.phase = "running"
            /\ compiling'.phase = "running"
            /\ compiling.next # << >>
            /\ Head(compiling.next) \in Keys(block_entries))
           => (/\ compiling'.next = Tail(compiling.next)
               /\ compiling'.emitted = compiling.emitted
               /\ code_ptr' = code_ptr)]_vars
    /\ (compiling.phase = "running") ~> (compiling.phase = "returned")

\* A multi-block Compile has returned with an empty list after emitting
\* several blocks; a successor was queued twice, so that its second copy was
\* resident when it reached the head of the list, and was skipped.
C23_Witness ==
    /\ compiling.phase = "returned" /\ last.op = "GetOrEmit"
    /\ multi_block
    /\ compiling.next = << >>
    /\ Len(compiling.emitted) >= 2
    /\ Len(compiling.queued) >= Len(compiling.emitted)
    /\ \E i, j \in 1..Len(compiling.queued) :
          i < j /\ compiling.queued[i] = compiling.queued[j]

(***************************************************************************)
(* C24. The three uniqueness assertions of Emit (the emplaces into         *)
(* block_entries, reverse_block_entries and block_infos) never fail: in    *)
(* every state reached by GetOrEmit, InvalidateBasicBlocks, ClearCache and *)
(* FastmemCallback, no call that can be made aborts on one of them, the    *)
(* GetOrEmit that emits a descriptor again after its invalidation and the  *)
(* multi-block Compile whose queued successors repeat or are resident      *)
(* included. (Every emitted block of the model has a positive size.)       *)
(***************************************************************************)
C24_EmitAssertionsNeverFail ==
    /\ \A r \in CallsFromHere :
          r.failed \notin { "ASSERT block_entries.emplace",
                           "ASSERT reverse_block_entries.emplace",
                           "ASSERT block_infos.emplace" }
    /\ \A entry \in Keys(block_infos) : block_infos[entry].size > 0

\* A descriptor was invalidated and its block is still recorded; a GetOrEmit
\* emits it again, with further blocks, from a list in which a successor
\* repeats or is resident when it reaches the head.
C24_Witness ==
    /\ multi_block
    /\ \E d \in LocationDescriptors :
          /\ StaleEntries(State, d) # {}
          /\ \E gen \in Generators : \E r \in { GetOrEmit(State, d, gen) } :
                /\ r.failed = "none"
                /\ Len(r.emitted) >= 2
                /\ r.emitted[1] = d
                /\ r.next = << >>
                /\ Len(r.queued) >= Len(r.emitted)

\* The slots of the list that LinkBlockLinks reaches: all of them, or those
\* before the first one whose type is neither Branch nor MoveToScratch1.
SlotsReached(block_relocations_list) ==
    { k \in 1..Len(block_relocations_list) :
        \A j \in 1..k : block_relocations_list[j].type \in {"Branch", "MoveToScratch1"} }

(***************************************************************************)
(* C25. LinkBlockLinks patches every (offset, type) slot of the given list *)
(* by this table: Branch with a non-null target becomes a direct branch to *)
(* the target; Branch with a null target becomes a no-op; MoveToScratch1   *)
(* with a non-null target materialises the target address into scratch1;   *)
(* MoveToScratch1 with a null target materialises the return-to-dispatcher *)
(* address; any other type is a fatal assertion (the slots before it in    *)
(* the list are patched, nothing else is stored).                          *)
(***************************************************************************)
C25_LinkBlockLinksFollowsTheTable ==
    call.phase = "returned" =>
        /\ call.failed = "Invalid BlockRelocationType" <=>
                SlotsReached(call.block_relocations_list)
                    # 1..Len(call.block_relocations_list)
        /\ call.failed \in {"none", "Invalid BlockRelocationType"}
        /\ \A k \in SlotsReached(call.block_relocations_list) :
             \A at \in { call.entry_point + call.block_relocations_list[k].ptr_offset } :
               /\ (call.block_relocations_list[k].type = "Branch"
                        /\ call.target_ptr # nullptr)
                     => mem[at] = B(call.target_ptr)
               /\ (call.block_relocations_list[k].type = "Branch"
                        /\ call.target_ptr = nullptr)
                     => mem[at] = NOP
               /\ call.block_relocations_list[k].type = "MoveToScratch1"
                     => /\ mem[at].op = "ADRP" /\ mem[at + InsnSize].op = "ADD"
                        /\ AdrlValue(mem[at], mem[at + InsnSize])
                              = IF call.target_ptr # nullptr THEN call.target_ptr
                                ELSE return_to_dispatcher
        /\ \A a \in ArenaWords :
             mem[a] # UNWRITTEN =>
                \E k \in SlotsReached(call.block_relocations_list) :
                    \/ a = call.entry_point + call.block_relocations_list[k].ptr_offset
                    \/ /\ call.block_relocations_list[k].type = "MoveToScratch1"
                       /\ a = call.entry_point
                                + call.block_relocations_list[k].ptr_offset + InsnSize

\* LinkBlockLinks has returned from a list of a Branch and a MoveToScratch1
\* slot, patched to a target of another page than the dispatcher's.
C25_Witness ==
    /\ call.phase = "returned"
    /\ call.failed = "none"
    /\ call.target_ptr # nullptr
    /\ call.target_ptr \div PageSize # return_to_dispatcher \div PageSize
    /\ Len(call.block_relocations_list) = 2
    /\ call.block_relocations_list[1].type = "Branch"
    /\ call.block_relocations_list[2].type = "MoveToScratch1"
    /\ mem[call.entry_point + call.block_relocations_list[1].ptr_offset].op = "B"

\* The descriptors of the LinkBlock and LinkBlockFast leaves of a terminal,
\* from left to right: both branches of If and CheckBit, the else branch of
\* CheckHalt.
RECURSIVE LinkLeaves(_)
LinkLeaves(terminal) ==
    CASE terminal.tag \in {"LinkBlock", "LinkBlockFast"} -> << terminal.next >>
      [] terminal.tag \in {"If", "CheckBit"} ->
            LinkLeaves(terminal.then_) \o LinkLeaves(terminal.else_)
      [] terminal.tag = "CheckHalt" -> LinkLeaves(terminal.else_)
      [] OTHER -> << >>

\* Whether the walk meets an Invalid terminal.
RECURSIVE MeetsInvalid(_)
MeetsInvalid(terminal) ==
    CASE terminal.tag = "Invalid" -> TRUE
      [] terminal.tag \in {"If", "CheckBit"} ->
            MeetsInvalid(terminal.then_) \/ MeetsInvalid(terminal.else_)
      [] terminal.tag = "CheckHalt" -> MeetsInvalid(terminal.else_)
      [] OTHER -> FALSE

(***************************************************************************)
(* C26. The successors queued for a block are exactly the next descriptors *)
(* of the LinkBlock and LinkBlockFast leaves of its terminal, reached by   *)
(* recursing into both branches of If and CheckBit (then before else) and  *)
(* the else branch of CheckHalt, appended to the list in that left-to-     *)
(* right order; ReturnToDispatch, PopRSBHint and FastDispatchHint queue    *)
(* nothing, and an Invalid terminal met on the walk is a fatal assertion.  *)
(***************************************************************************)
C26_QueuedSuccessorsAreTheLinkLeaves ==
    call.phase = "returned" =>
        /\ call.failed <=> MeetsInvalid(call.terminal)
        /\ ~call.failed => call.next = call.initial \o LinkLeaves(call.terminal)
        /\ call.terminal.tag \in {"ReturnToDispatch", "PopRSBHint", "FastDispatchHint"}
              => call.next = call.initial
        /\ call.terminal.tag \in {"LinkBlock", "LinkBlockFast"}
              => call.next = Append(call.initial, call.terminal.next)

\* The call has returned from an If whose then branch is a CheckBit and
\* whose else branch is a CheckHalt: three successors, neighbours different,
\* were appended to a list that was not empty.
C26_Witness ==
    /\ call.phase = "returned"
    /\ ~call.failed
    /\ call.initial # << >>
    /\ call.terminal.tag = "If"
    /\ call.terminal.then_.tag = "CheckBit"
    /\ call.terminal.else_.tag = "CheckHalt"
    /\ Len(call.next) = Len(call.initial) + 3
    /\ call.next[2] # call.next[3] /\ call.next[3] # call.next[4]

(***************************************************************************)
(* C27. In every reachable state the key sets of reverse_block_entries and *)
(* block_infos are equal, and every code pointer stored in                 *)
(* block_references[D] is a key of block_infos whose info has a            *)
(* block_relocations entry for D; consequently FastmemCallback never finds *)
(* an entry point without a block_infos entry, and no call finds a         *)
(* presence guard of RelinkForDescriptor false.                            *)
(***************************************************************************)
C27_ReverseInfosAndReferencesAgree ==
    /\ Keys(reverse_block_entries) = Keys(block_infos)
    /\ \A D \in Keys(block_references) : \A P \in block_references[D] :
          /\ P \in Keys(block_infos)
          /\ D \in Keys(block_infos[P].block_relocations)
    /\ \A host_pc \in FaultAddresses :
          \A entry_point \in { ReverseGetEntryPoint(State, host_pc) } :
              entry_point # nullptr => entry_point \in Keys(block_infos)
    /\ \A r \in CallsFromHere : r.skipped = {}

\* After an invalidation, a descriptor is referenced by two recorded blocks,
\* one of them stale, and a call from here relinks them.
C27_Witness ==
    /\ last.op \in {"InvalidateBasicBlocks", "FastmemCallback"}
    /\ \E D \in Keys(block_references) :
          /\ Cardinality(block_references[D]) >= 2
          /\ \E P \in block_references[D] :
                P \in StaleEntries(State, reverse_block_entries[P])
          /\ Get(State, D) = nullptr
          /\ \E gen \in Generators : \E r \in { GetOrEmit(State, D, gen) } :
                r.failed = "none" /\ ~r.cleared

(***************************************************************************)
(* C28. Every write into the arena (block emission, Link relocation        *)
(* patches, LinkBlockLinks slot patches) happens between an unprotect()    *)
(* and its matching protect(): no call writes a word while the arena is    *)
(* not writable; no unprotect() finds the arena writable and no protect()  *)
(* finds it protected; and the arena is protected (executable) whenever    *)
(* GetOrEmit, InvalidateBasicBlocks or FastmemCallback returns.            *)
(***************************************************************************)
C28_WritesOnlyBetweenUnprotectAndProtect ==
    /\ protection = "Execute"
    /\ \A r \in CallsFromHere :
          /\ r.exposed = {}
          /\ ~r.nested
          /\ r.failed = "none" => r.protection = "Execute"
          /\ (r.dirty # {} \/ r.stores # << >> \/ r.emitted # << >>) => r.unprotected

\* From here one call emits a block and patches slots of recorded blocks,
\* and another re-patches slots while it invalidates.
C28_Witness ==
    /\ last.op = "GetOrEmit"
    /\ \E d \in LocationDescriptors : \E gen \in Generators :
          \E r \in { GetOrEmit(State, d, gen) } :
              /\ r.failed = "none" /\ r.unprotected
              /\ r.emitted # << >> /\ r.stores # << >>
    /\ \E d \in Keys(block_entries) :
          \E r \in { InvalidateBasicBlocks(State, {d}) } :
              /\ r.failed = "none" /\ r.unprotected
              /\ r.stores # << >>
====
